---------------------------- MODULE Spec2Model ----------------------------
(***************************************************************************)
(* Model of the Teardown mod keybind scanner (src/keybind_scanner.py) and   *)
(* of the scan control of its GUI (src/gui.py).                            *)
(*                                                                         *)
(* Python values are modelled as follows.                                  *)
(*   str    a sequence of one-character strings                            *)
(*   int    an integer                                                     *)
(*   list   a sequence                                                     *)
(*   dict   a sequence of entries [k |-> key, v |-> value] with distinct   *)
(*          keys, in insertion order (DictEq is Python's ==, which         *)
(*          ignores the order of the entries)                              *)
(*   a value that is an int in one record and a str in another (the        *)
(*   line_number of a raw match and of a merged record) is tagged:         *)
(*   PyInt(n), PyStr(s)                                                    *)
(***************************************************************************)
EXTENDS Integers, Sequences, FiniteSets, TLC

VARIABLES
    phase,          \* position of the aggregation driver
    results,        \* aggregate_results: the list of raw matches passed in
    aggregated,     \* aggregate_results: the dict returned for results
    results2,       \* the records of aggregated, listed as raw matches
    aggregated2,    \* aggregate_results(results2)
    results_after,  \* the dicts of the list results after aggregate_results(results) returned
    fs,             \* the file system: the file at each path of FilePaths
    scan_pc,        \* "setup" before scan_directories is called, "done" after it returned
    directories,    \* scan_directories: the directories argument
    mod_status_xml, \* scan_directories: the mod_status_xml argument
    dry_run,        \* scan_directories: the dry_run argument
    listing,        \* the order in which directories were listed during the scan
    mod_dirs,       \* scan_directories: what collect_mod_directories returned
    mod_status,     \* scan_directories: the mapping built from the manifest
    scan_data,      \* the dict scan_directories returned
    scan_log,       \* the log records of that call of scan_directories
    xml_children,   \* the children of the root of the manifest being parsed
    xml_pc,         \* "build" before parse_mod_status_xml is called, "parsed" after
    xml_status,     \* the dict parse_mod_status_xml returned
    ln_pc,          \* "new" before KeybindScanner(...), then "constructed" or "rejected", then "scanned"
    ln_args,        \* the arguments KeybindScanner was constructed with
    ln_tokens,      \* the pieces of the one line of the file scan_file is called on
    ln_results,     \* the list scan_file returned
    ln_log,          \* the log records of that call of scan_file
    fn_pc,          \* "build" before should_scan_file is called, "classified" after
    fn_name,        \* the name of the file should_scan_file is called on
    fn_scan,         \* what should_scan_file returned
    mn_pc,          \* "setup" before extract_mod_name is called, then "returned" or "raised"
    mn_dir,         \* extract_mod_name: the dir_path argument
    mn_order,       \* the order in which the directory was listed during the call
    mn_name,        \* the name extract_mod_name returned
    mn_log,          \* the log records of that call
    sv_pc,          \* "input" before save_results is called, then "saved" or "raised", then "read" or "read_after_raise"
    sv_mods,        \* the mods whose raw matches make the scan_data passed to save_results
    sv_formats,     \* save_results: the formats argument
    sv_json,        \* keybinds.json in the output directory
    sv_csv,         \* keybinds.csv in the output directory
    sv_loaded,      \* what json.load gave for keybinds.json
    sv_rows,         \* the rows csv.reader gave for keybinds.csv
    out_pc,         \* "setup" before the entry point is called, then "returned", "raised" or "exited"
    out_dirs,       \* the directories that exist below the working directory
    out_files,      \* the regular files that exist below the working directory
    out_call,       \* the entry point called and its arguments
    out_scanned,    \* scan_directories was called
    out_error,       \* the exception or the exit that ended the call
    gt_pc,          \* "build" before scan_file is called on the file, "scanned" after
    gt_max,         \* max_file_size of the scanner
    gt_file,        \* the file scan_file is called on
    gt_results,     \* the list scan_file returned
    gt_opens,       \* the modes of the open calls made on the file during scan_file
    gt_log,          \* the log records of that call
    gui_directories, \* GUI: self.directories, the directories chosen for the scan
    json_format,    \* GUI: the JSON checkbox
    csv_format,     \* GUI: the CSV checkbox
    custom_patterns, \* GUI: the custom patterns entry: "empty", "valid" or "invalid"
    run_button,     \* GUI: the state of the Run Scan button, "normal" or "disabled"
    progress,       \* GUI: the progress bar is running
    scan_thread,    \* GUI: self.scan_thread, the scan thread started last (0: None)
    thread_pc,      \* GUI: the position of each scan thread in _run_scan_thread
    after_queue,    \* GUI: the callbacks scheduled with root.after(0, ...), in order
    gui_scan_data,  \* GUI: self.scan_data, the scan whose result is stored (0: None)
    view_button,    \* GUI: the state of the View Keybindings and View Binding Map buttons
    gui_shown,      \* GUI: what the user was shown last: a message box, or a traceback on stderr
    gui_completed   \* GUI: the scans for which scan_complete has run

aggVars == <<phase, results, aggregated, results2, aggregated2, results_after>>

scanVars == <<fs, scan_pc, directories, mod_status_xml, dry_run, listing,
              mod_dirs, mod_status, scan_data, scan_log>>

xmlVars == <<xml_children, xml_pc, xml_status>>

lnVars == <<ln_pc, ln_args, ln_tokens, ln_results, ln_log>>

fnVars == <<fn_pc, fn_name, fn_scan>>

mnVars == <<mn_pc, mn_dir, mn_order, mn_name, mn_log>>

svVars == <<sv_pc, sv_mods, sv_formats, sv_json, sv_csv, sv_loaded, sv_rows>>

outVars == <<out_pc, out_dirs, out_files, out_call, out_scanned, out_error>>

gtVars == <<gt_pc, gt_max, gt_file, gt_results, gt_opens, gt_log>>

guiVars == <<gui_directories, json_format, csv_format, custom_patterns, run_button, progress, scan_thread, thread_pc, after_queue, gui_scan_data, view_button, gui_shown, gui_completed>>

vars == <<aggVars, scanVars, xmlVars, lnVars, fnVars, mnVars, svVars, outVars, gtVars, guiVars>>

-----------------------------------------------------------------------------
(* Python str *)

Range(q) == { q[i] : i \in DOMAIN q }

\* The character os.fsdecode gives for a byte of a file name that is not
\* valid in the file system encoding (surrogateescape): U+DCFF for 0xFF. It
\* is one character of a str, and it cannot be encoded to UTF-8.
Surrogate == "U+DCFF"

\* The characters the model uses, in increasing code point order.
CharOrder ==
    << "\t", "\n", " ", "\"", "#", "'", "(", ")", "-", ".", "/",
       "0", "1", "2", "3", "4", "5", "6", "7", "8", "9",
       ":", ";", "<", "=", ">",
       "A", "B", "C", "D", "E", "F", "G", "H", "I", "J", "K", "L", "M",
       "N", "O", "P", "Q", "R", "S", "T", "U", "V", "W", "X", "Y", "Z",
       "\\", "_",
       "a", "b", "c", "d", "e", "f", "g", "h", "i", "j", "k", "l", "m",
       "n", "o", "p", "q", "r", "s", "t", "u", "v", "w", "x", "y", "z",
       "|", Surrogate >>

\* ord(c), up to the gaps between the characters of CharOrder
OrdTable == [c \in { CharOrder[i] : i \in DOMAIN CharOrder } |->
                CHOOSE i \in DOMAIN CharOrder : CharOrder[i] = c]

Ord(c) == OrdTable[c]

\* a < b for two str (lexicographic by code point)
RECURSIVE StrLess(_, _)
StrLess(a, b) ==
    IF b = <<>> THEN FALSE
    ELSE IF a = <<>> THEN TRUE
    ELSE IF Head(a) = Head(b) THEN StrLess(Tail(a), Tail(b))
    ELSE Ord(Head(a)) < Ord(Head(b))

Digits == << "0", "1", "2", "3", "4", "5", "6", "7", "8", "9" >>

\* str(n) for an int n >= 0
RECURSIVE Str(_)
Str(n) ==
    IF n < 10 THEN << Digits[n + 1] >>
    ELSE Str(n \div 10) \o << Digits[(n % 10) + 1] >>

\* sep.join(parts)
RECURSIVE Join(_, _)
Join(sep, parts) ==
    IF parts = <<>> THEN <<>>
    ELSE IF Len(parts) = 1 THEN parts[1]
    ELSE parts[1] \o sep \o Join(sep, Tail(parts))

-----------------------------------------------------------------------------
(* Tagged values, sets and sorting *)

PyInt(n) == [t |-> "int", n |-> n, s |-> <<>>]
PyStr(s) == [t |-> "str", n |-> 0, s |-> s]

\* str(v) of a tagged value
StrOf(v) == IF v.t = "int" THEN Str(v.n) ELSE v.s

\* v < w as sorted() compares two values of one type
PyLess(v, w) == IF v.t = "int" THEN v.n < w.n ELSE StrLess(v.s, w.s)

\* sorted(S) of a set of str
RECURSIVE SortedStrs(_)
SortedStrs(S) ==
    IF S = {} THEN <<>>
    ELSE LET m == CHOOSE x \in S : \A y \in S \ {x} : StrLess(x, y)
         IN  <<m>> \o SortedStrs(S \ {m})

\* sorted(S) of a set of tagged values of one type
RECURSIVE SortedVals(_)
SortedVals(S) ==
    IF S = {} THEN <<>>
    ELSE LET m == CHOOSE x \in S : \A y \in S \ {x} : PyLess(x, y)
         IN  <<m>> \o SortedVals(S \ {m})

\* sorted() raises TypeError when it has to compare an int with a str
Sortable(S) == \A x, y \in S : x.t = y.t

-----------------------------------------------------------------------------
(* Python dict *)

DictKeys(d) == { d[i].k : i \in DOMAIN d }
DictHas(d, k) == \E i \in DOMAIN d : d[i].k = k
DictGet(d, k) == d[CHOOSE i \in DOMAIN d : d[i].k = k].v

\* d[k] = v
DictSet(d, k, v) ==
    IF DictHas(d, k)
    THEN [i \in DOMAIN d |-> IF d[i].k = k THEN [k |-> k, v |-> v] ELSE d[i]]
    ELSE Append(d, [k |-> k, v |-> v])

\* d1 == d2
DictEq(d1, d2) ==
    /\ DictKeys(d1) = DictKeys(d2)
    /\ \A k \in DictKeys(d1) : DictGet(d1, k) = DictGet(d2, k)

\* d[k].append(x) on a defaultdict(list)
DefaultListAppend(d, k, x) ==
    DictSet(d, k, Append(IF DictHas(d, k) THEN DictGet(d, k) ELSE <<>>, x))

-----------------------------------------------------------------------------
(* Raw matches *)

\* a raw match as scan_file and scan_directories build it
RawMatch(file_path, line_no, key_name, context, matched_text, mod_name, mod_enabled) ==
    [file_path    |-> file_path,
     line_number  |-> PyInt(line_no),
     key_name     |-> key_name,
     context      |-> context,
     matched_text |-> matched_text,
     mod_name     |-> mod_name,
     mod_enabled  |-> mod_enabled]

-----------------------------------------------------------------------------
(* aggregate_results *)

\* all_contexts[:3]
MaxContexts == 3

\* mutant of ModKeyGroups: the groups are keyed by (file_path, key_name)
RECURSIVE ModKeyGroups_ByFile(_, _)
ModKeyGroups_ByFile(rs, n) ==
    IF n = 0 THEN <<>>
    ELSE DefaultListAppend(ModKeyGroups_ByFile(rs, n - 1),
                           <<rs[n].file_path, rs[n].key_name>>, rs[n])

\* mod_key_groups after the first loop over results[1..n]
RECURSIVE ModKeyGroups(_, _)
ModKeyGroups(rs, n) ==
    IF n = 0 THEN <<>>
    ELSE DefaultListAppend(ModKeyGroups(rs, n - 1),
                           <<rs[n].mod_name, rs[n].key_name>>, rs[n])

\* all_contexts after the loop over group_results[1..n]
RECURSIVE AllContexts(_, _)
AllContexts(group_results, n) ==
    IF n = 0 THEN <<>>
    ELSE LET prev == AllContexts(group_results, n - 1)
             c    == group_results[n].context
         IN  IF c \in Range(prev) THEN prev ELSE Append(prev, c)

Take(q, n) == SubSeq(q, 1, IF Len(q) < n THEN Len(q) ELSE n)

\* mutant of MergeGroup: the line numbers are sorted after str(), as strings
MergeGroup_StrSort(group_results) ==
    LET first_result == group_results[1]
        all_files    == { r.file_path : r \in Range(group_results) }
        all_lines    == { StrOf(r.line_number) : r \in Range(group_results) }
        all_contexts == AllContexts(group_results, Len(group_results))
    IN  [first_result EXCEPT
            !.file_path   = Join(<<";", " ">>, SortedStrs(all_files)),
            !.line_number = PyStr(Join(<<";", " ">>, SortedStrs(all_lines))),
            !.context     = Join(<<" ", "|", " ">>,
                                Take(all_contexts, MaxContexts))]

\* mutant of MergeGroup: the file paths and the line numbers are joined in
\* first-seen order, without sorted()
MergeGroup_Unsorted(group_results) ==
    [group_results[1] EXCEPT
        !.file_path   = Join(<<";", " ">>,
                             AllContexts([i \in DOMAIN group_results |->
                                             [context |-> group_results[i].file_path]],
                                         Len(group_results))),
        !.line_number = PyStr(Join(<<";", " ">>,
                             AllContexts([i \in DOMAIN group_results |->
                                             [context |-> StrOf(group_results[i].line_number)]],
                                         Len(group_results)))),
        !.context     = Join(<<" ", "|", " ">>,
                             Take(AllContexts(group_results, Len(group_results)),
                                  MaxContexts))]

\* the merged record of a group with more than one raw match
MergeGroup(group_results) ==
    LET first_result == group_results[1]
        all_files    == { r.file_path : r \in Range(group_results) }
        all_lines    == { r.line_number : r \in Range(group_results) }
        all_contexts == AllContexts(group_results, Len(group_results))
        lines        == SortedVals(all_lines)
    IN  [first_result EXCEPT
            !.file_path   = Join(<<";", " ">>, SortedStrs(all_files)),
            !.line_number = PyStr(Join(<<";", " ">>,
                                [i \in DOMAIN lines |-> StrOf(lines[i])])),
            !.context     = Join(<<" ", "|", " ">>,
                                Take(all_contexts, MaxContexts))]

\* the value stored in merged_results for one group
MergedRecord(group_results) ==
    IF Len(group_results) = 1 THEN group_results[1]
    ELSE MergeGroup(group_results)

\* merged_results: one entry per (mod_name, key_name), in insertion order
MergedResults(groups) ==
    [i \in DOMAIN groups |-> [k |-> groups[i].k, v |-> MergedRecord(groups[i].v)]]

\* mutant of AggregateByKey: the records are filed under their mod_name
RECURSIVE AggregateByKey_ByMod(_, _)
AggregateByKey_ByMod(merged, n) ==
    IF n = 0 THEN <<>>
    ELSE DefaultListAppend(AggregateByKey_ByMod(merged, n - 1),
                           merged[n].v.mod_name, merged[n].v)

\* mutant of AggregateByKey: aggregated[key].insert(0, result)
RECURSIVE AggregateByKey_Prepend(_, _)
AggregateByKey_Prepend(merged, n) ==
    IF n = 0 THEN <<>>
    ELSE LET d == AggregateByKey_Prepend(merged, n - 1)
             k == merged[n].v.key_name
         IN  DictSet(d, k, <<merged[n].v>> \o
                            (IF DictHas(d, k) THEN DictGet(d, k) ELSE <<>>))

\* mutant of AggregateByKey: aggregated[key] = [result]
RECURSIVE AggregateByKey_Replace(_, _)
AggregateByKey_Replace(merged, n) ==
    IF n = 0 THEN <<>>
    ELSE DictSet(AggregateByKey_Replace(merged, n - 1),
                 merged[n].v.key_name, <<merged[n].v>>)

\* aggregated after the loop over merged_results.values()[1..n]
RECURSIVE AggregateByKey(_, _)
AggregateByKey(merged, n) ==
    IF n = 0 THEN <<>>
    ELSE DefaultListAppend(AggregateByKey(merged, n - 1),
                           merged[n].v.key_name, merged[n].v)

\* gui.py populate_keybinding_tree_filtered: a key is flagged as a conflict
IsConflict(bindings) == Len(bindings) > 1

\* sorted(all_lines) raises TypeError for some group of rs
AggregateRaises(rs) ==
    LET groups == ModKeyGroups(rs, Len(rs))
    IN  \E i \in DOMAIN groups :
            /\ Len(groups[i].v) > 1
            /\ ~Sortable({ r.line_number : r \in Range(groups[i].v) })

\* The dicts of aggregate_results as objects: the dict of results[i] stands
\* at address i of the heap, and a copy is appended at a new address.

\* the addresses of the dicts of each group of mod_key_groups, in list order
GroupRefs(rs) ==
    [g \in DOMAIN ModKeyGroups(rs, Len(rs)) |->
        SelectSeq([j \in DOMAIN rs |-> j],
                  LAMBDA j : rs[j] \in Range(ModKeyGroups(rs, Len(rs))[g].v))]

\* mutant of StoreMerged: first_result = group_results[0], without copy()
StoreMerged_NoCopy(heap, refs) ==
    IF Len(refs) = 1 THEN heap
    ELSE [heap EXCEPT ![refs[1]] = MergeGroup([i \in DOMAIN refs |-> heap[refs[i]]])]

\* the heap after one pass of the loop over mod_key_groups: a group of one
\* is stored as it is; for a larger group first_result is a copy of the
\* first dict, and the three merged fields are written to the copy
StoreMerged(heap, refs) ==
    IF Len(refs) = 1 THEN heap
    ELSE Append(heap, MergeGroup([i \in DOMAIN refs |-> heap[refs[i]]]))

\* the heap after the groups 1..n were merged
RECURSIVE MergeHeap(_, _, _)
MergeHeap(heap, groups, n) ==
    IF n = 0 THEN heap
    ELSE StoreMerged(MergeHeap(heap, groups, n - 1), groups[n])

\* the dicts the list results holds after aggregate_results(results) returned:
\* the list itself is only read
ResultsAfter(rs) ==
    SubSeq(MergeHeap(rs, GroupRefs(rs), Len(GroupRefs(rs))), 1, Len(rs))

\* aggregate_results(rs)
AggregateResults(rs) ==
    LET merged == MergedResults(ModKeyGroups(rs, Len(rs)))
    IN  AggregateByKey(merged, Len(merged))


-----------------------------------------------------------------------------
(* More of Python str, and the regular expressions of the scanner *)

Max(a, b) == IF a < b THEN b ELSE a
Min(a, b) == IF a < b THEN a ELSE b

UpperCase == << "A", "B", "C", "D", "E", "F", "G", "H", "I", "J", "K", "L", "M",
                "N", "O", "P", "Q", "R", "S", "T", "U", "V", "W", "X", "Y", "Z" >>
LowerCase == << "a", "b", "c", "d", "e", "f", "g", "h", "i", "j", "k", "l", "m",
                "n", "o", "p", "q", "r", "s", "t", "u", "v", "w", "x", "y", "z" >>

LowerTable == [c \in { UpperCase[i] : i \in DOMAIN UpperCase } |->
                  LowerCase[CHOOSE i \in DOMAIN UpperCase : UpperCase[i] = c]]

\* c.lower() of one character
LowerChar(c) == IF c \in DOMAIN LowerTable THEN LowerTable[c] ELSE c

\* s.lower()
Lower(s) == [i \in DOMAIN s |-> LowerChar(s[i])]

\* \s
IsSpace(c) == c \in {" ", "\t", "\n", "\r"}

\* \w
WordChars == Range(UpperCase) \cup Range(LowerCase) \cup Range(Digits) \cup {"_"}

IsWord(c) == c \in WordChars

\* s.startswith(prefix)
StartsWith(s, prefix) ==
    Len(prefix) <= Len(s) /\ SubSeq(s, 1, Len(prefix)) = prefix

\* s.strip()
RECURSIVE LStrip(_)
LStrip(s) == IF s # <<>> /\ IsSpace(Head(s)) THEN LStrip(Tail(s)) ELSE s

RECURSIVE RStrip(_)
RStrip(s) ==
    IF s # <<>> /\ IsSpace(s[Len(s)]) THEN RStrip(SubSeq(s, 1, Len(s) - 1)) ELSE s

Strip(s) == RStrip(LStrip(s))

\* the literal lit occurs in s at 1-based position i (ignoring case when asked)
LiteralAt(s, i, lit, ignore_case) ==
    /\ i + Len(lit) - 1 <= Len(s)
    /\ \A j \in DOMAIN lit :
          IF ignore_case THEN LowerChar(s[i + j - 1]) = LowerChar(lit[j])
          ELSE s[i + j - 1] = lit[j]

\* the position after the longest run of \s starting at position i
RECURSIVE SkipSpaces(_, _)
SkipSpaces(s, i) ==
    IF i <= Len(s) /\ IsSpace(s[i]) THEN SkipSpaces(s, i + 1) ELSE i

Quotes == {"\"", "'"}

\* the position after the longest run of [^"'] starting at position i
RECURSIVE SkipNonQuotes(_, _)
SkipNonQuotes(s, i) ==
    IF i <= Len(s) /\ s[i] \notin Quotes THEN SkipNonQuotes(s, i + 1) ELSE i

\* \b between s[i - 1] and s[i] (1-based)
WordBoundary(s, i) ==
    LET before == i >= 2 /\ i - 1 <= Len(s) /\ IsWord(s[i - 1])
        after  == i >= 1 /\ i <= Len(s) /\ IsWord(s[i])
    IN  before # after

\* A pattern string.  The patterns in use are the call forms
\* Form\(\s*["']([^"']+)["']\s*\), the same without the capture group
\* (group = FALSE), and strings re.compile rejects (valid = FALSE).
Pattern(form, group, valid) == [form |-> form, group |-> group, valid |-> valid]

\* mutant of DEFAULT_PATTERNS: the InputValue form is missing
DEFAULT_PATTERNS_NoValue ==
    << Pattern(<<"I", "n", "p", "u", "t", "P", "r", "e", "s", "s", "e", "d">>, TRUE, TRUE),
       Pattern(<<"I", "n", "p", "u", "t", "D", "o", "w", "n">>, TRUE, TRUE),
       Pattern(<<"I", "n", "p", "u", "t", "R", "e", "l", "e", "a", "s", "e", "d">>, TRUE, TRUE) >>

\* DEFAULT_PATTERNS
DEFAULT_PATTERNS ==
    << Pattern(<<"I", "n", "p", "u", "t", "P", "r", "e", "s", "s", "e", "d">>, TRUE, TRUE),
       Pattern(<<"I", "n", "p", "u", "t", "D", "o", "w", "n">>, TRUE, TRUE),
       Pattern(<<"I", "n", "p", "u", "t", "R", "e", "l", "e", "a", "s", "e", "d">>, TRUE, TRUE),
       Pattern(<<"I", "n", "p", "u", "t", "V", "a", "l", "u", "e">>, TRUE, TRUE) >>

\* KeybindScanner(patterns, case_insensitive, whole_word, max_file_size):
\* the scanner __init__ leaves when every pattern compiles
KeybindScanner(patterns, case_insensitive, whole_word, max_file_size) ==
    [patterns         |-> IF patterns = <<>> THEN DEFAULT_PATTERNS ELSE patterns,
     case_insensitive |-> case_insensitive,
     whole_word       |-> whole_word,
     max_file_size    |-> max_file_size]

\* __init__: re.compile raises re.error on a pattern that is not a regular
\* expression
InitRaises(patterns) == \E i \in DOMAIN patterns : ~patterns[i].valid

\* KeybindScanner(): the defaults of __init__
DefaultScanner == KeybindScanner(<<>>, FALSE, FALSE, 10 * 1024 * 1024)

NoMatch == [ok |-> FALSE, start |-> 0, end |-> 0, group1 |-> <<>>]

\* One compiled pattern tried at 1-based position i of the line. start and
\* end are match.start() and match.end() (0-based, end exclusive).  Every
\* quantifier of the pattern is followed by a character it cannot match, so
\* the greedy match is the only one.
MatchAt(scanner, pattern, line, i) ==
    LET form   == pattern.form
        open   == i + Len(form)
        quote1 == SkipSpaces(line, open + 1)
        quote2 == SkipNonQuotes(line, quote1 + 1)
        close  == SkipSpaces(line, quote2 + 1)
    IN  IF /\ LiteralAt(line, i, form \o <<"(">>, scanner.case_insensitive)
           /\ quote1 <= Len(line) /\ line[quote1] \in Quotes
           /\ quote2 > quote1 + 1
           /\ quote2 <= Len(line) /\ line[quote2] \in Quotes
           /\ close <= Len(line) /\ line[close] = ")"
           /\ scanner.whole_word =>
                 WordBoundary(line, i) /\ WordBoundary(line, close + 1)
        THEN [ok |-> TRUE, start |-> i - 1, end |-> close,
              group1 |-> SubSeq(line, quote1 + 1, quote2 - 1)]
        ELSE NoMatch

\* pattern.finditer(line): the matches from position i on, left to right
RECURSIVE FindIter(_, _, _, _)
FindIter(scanner, pattern, line, i) ==
    IF i > Len(line) THEN <<>>
    ELSE LET m == MatchAt(scanner, pattern, line, i)
         IN  IF m.ok THEN <<m>> \o FindIter(scanner, pattern, line, m.end + 1)
             ELSE FindIter(scanner, pattern, line, i + 1)

\* context = line[max(0, start - 50):min(len(line), end + 50)].strip()
ContextRadius == 50

ContextOf(line, m) ==
    Strip(SubSeq(line, Max(0, m.start - ContextRadius) + 1,
                       Min(Len(line), m.end + ContextRadius)))

\* concatenation of a sequence of sequences
RECURSIVE Concat(_)
Concat(qs) ==
    IF qs = <<>> THEN <<>>
    ELSE IF Len(qs) = 1 THEN qs[1]
    ELSE Concat(SubSeq(qs, 1, Len(qs) \div 2))
         \o Concat(SubSeq(qs, Len(qs) \div 2 + 1, Len(qs)))

\* scan_file, the loops over the lines, the patterns and the matches: the
\* result dicts of one line, before scan_directories adds the mod fields
ScanLine(scanner, file_path, line_no, line) ==
    Concat([p \in DOMAIN scanner.patterns |->
        LET ms == FindIter(scanner, scanner.patterns[p], line, 1)
        IN  [j \in DOMAIN ms |->
                [file_path    |-> file_path,
                 line_number  |-> PyInt(line_no),
                 key_name     |-> ms[j].group1,
                 context      |-> ContextOf(line, ms[j]),
                 matched_text |-> SubSeq(line, ms[j].start + 1, ms[j].end)]]])

ScanLines(scanner, file_path, lines) ==
    Concat([n \in DOMAIN lines |-> ScanLine(scanner, file_path, n, lines[n])])

\* for each result of ScanLines, in the same order, whether the pattern of
\* its match has a capture group
HasGroup(scanner, lines) ==
    Concat([n \in DOMAIN lines |->
        Concat([p \in DOMAIN scanner.patterns |->
            LET ms == FindIter(scanner, scanner.patterns[p], lines[n], 1)
            IN  [j \in DOMAIN ms |-> scanner.patterns[p].group]])])

\* scan_file: the number of results appended when match.group(1) raises
\* IndexError, or -1 when it never does
ResultsBeforeIndexError(scanner, lines) ==
    IF \A p \in DOMAIN scanner.patterns : scanner.patterns[p].group THEN -1
    ELSE LET groups == HasGroup(scanner, lines)
         IN  IF \A k \in DOMAIN groups : groups[k] THEN -1
             ELSE (CHOOSE k \in DOMAIN groups :
                       ~groups[k] /\ \A j \in 1..(k - 1) : groups[j]) - 1

\* a record passed to self.logger: the level, the message up to the path it
\* names, and that path
LogRecord(level, msg, path) == [level |-> level, msg |-> msg, path |-> path]

-----------------------------------------------------------------------------
(* pathlib.Path and the file system *)

\* A path is the sequence of its components, each a str.
PathStr(p) == Join(<<"/">>, p)                \* str(p)
Name(p) == p[Len(p)]                          \* p.name
Parent(p) == SubSeq(p, 1, Len(p) - 1)         \* p.parent
Child(p, name) == Append(p, name)             \* p / name
IsUnder(p, dir) == Len(p) > Len(dir) /\ SubSeq(p, 1, Len(dir)) = dir

\* The directories that exist: r, r/A, r/B and r/A/s.  z does not exist.
DirR   == << <<"r">> >>
DirRA  == << <<"r">>, <<"A">> >>
DirRB  == << <<"r">>, <<"B">> >>
DirRAS == << <<"r">>, <<"A">>, <<"s">> >>
DirZ   == << <<"z">> >>
Dirs   == { DirR, DirRA, DirRB, DirRAS }

MainLua   == <<"m", "a", "i", "n", ".", "l", "u", "a">>
InfoTxt   == <<"i", "n", "f", "o", ".", "t", "x", "t">>
ScriptLua == <<"s", "c", "r", "i", "p", "t", ".", "l", "u", "a">>
ReadmeMd  == <<"R", "E", "A", "D", "M", "E", ".", "m", "d">>
ReadmeTxt == <<"r", "e", "a", "d", "m", "e", ".", "t", "x", "t">>
FileNames == { MainLua, InfoTxt, ScriptLua, ReadmeMd, ReadmeTxt }

\* the paths at which the scripts and the metadata of the mods may exist
TreePaths ==
    { Child(DirR, MainLua),
      Child(DirRA, MainLua), Child(DirRA, InfoTxt),
      Child(DirRB, MainLua), Child(DirRB, InfoTxt), Child(DirRB, ScriptLua),
      Child(DirRAS, MainLua) }

\* the paths at which a file may exist
FilePaths == TreePaths \cup { Child(DirRA, ReadmeMd), Child(DirRA, ReadmeTxt) }

NoFile == [exists |-> FALSE, lines |-> <<>>, size |-> 0, nul |-> FALSE,
           readable |-> FALSE, decodable |-> FALSE]

\* st_size of a text of these lines, each ended by one newline character
RECURSIVE SizeOf(_)
SizeOf(lines) == IF lines = <<>> THEN 0 ELSE Len(Head(lines)) + 1 + SizeOf(Tail(lines))

\* a readable text file with these lines
TextFile(lines) ==
    [exists |-> TRUE, lines |-> lines, size |-> SizeOf(lines), nul |-> FALSE,
     readable |-> TRUE, decodable |-> TRUE]

\* the same file without read permission: open raises PermissionError
Unreadable(lines) == [TextFile(lines) EXCEPT !.readable = FALSE]

\* a file of that size whose bytes are not valid in the encoding (and hold
\* no NUL): reading it raises UnicodeDecodeError
Undecodable(lines) == [TextFile(lines) EXCEPT !.decodable = FALSE]

\* a directory, with or without the permission to list it
Directory(listable) == [listable |-> listable]

\* the tree before any file is written
EmptyTree == [p \in FilePaths \cup Dirs |-> IF p \in Dirs THEN Directory(TRUE) ELSE NoFile]

Exists(files, p) == p \in Dirs \/ (p \in FilePaths /\ files[p].exists)   \* p.exists()
IsDir(p) == p \in Dirs                                                   \* p.is_dir()
IsFile(files, p) == p \in FilePaths /\ files[p].exists                   \* p.is_file()

Reverse(q) == [i \in DOMAIN q |-> q[Len(q) + 1 - i]]

\* The order in which the operating system lists a directory is not
\* specified: the entries come by ascending or by descending name.
ListingOrders == {"asc", "desc"}

Listed(names, order) ==
    IF order = "asc" THEN SortedStrs(names) ELSE Reverse(SortedStrs(names))

\* dir_path.iterdir() raises: FileNotFoundError or NotADirectoryError when
\* dir_path is no directory, PermissionError when it may not be listed
IterdirRaises(files, dir_path) == ~IsDir(dir_path) \/ ~files[dir_path].listable

\* dir_path.iterdir(): the paths of the entries of a directory
Iterdir(files, dir_path, order) ==
    LET names == { n \in FileNames : IsFile(files, Child(dir_path, n)) }
                     \cup { Name(d) : d \in { e \in Dirs : Len(e) > 1 /\ Parent(e) = dir_path } }
        listed == Listed(names, order)
    IN  [i \in DOMAIN listed |-> Child(dir_path, listed[i])]

\* every directory from dir_path down to the parent of p may be listed
ListableDownTo(files, dir_path, p) ==
    \A n \in Len(dir_path)..(Len(p) - 1) :
        SubSeq(p, 1, n) \in Dirs /\ files[SubSeq(p, 1, n)].listable

\* the files of dir_path.rglob('*'): a directory that may not be listed is
\* passed over
RglobFiles(files, dir_path) ==
    { p \in FilePaths : /\ files[p].exists
                        /\ IsUnder(p, dir_path)
                        /\ ListableDownTo(files, dir_path, p) }

\* os.walk(dir_path): the paths root_path / file, directory after directory;
\* a directory that may not be listed is passed over
RECURSIVE WalkFiles(_, _, _)
WalkFiles(files, dir_path, order) ==
    LET entries == IF IterdirRaises(files, dir_path) THEN <<>>
                   ELSE Iterdir(files, dir_path, order)
        here    == SelectSeq(entries, LAMBDA p : IsFile(files, p))
        subdirs == SelectSeq(entries, LAMBDA p : IsDir(p))
    IN  here \o Concat([i \in DOMAIN subdirs |-> WalkFiles(files, subdirs[i], order)])

-----------------------------------------------------------------------------
(* File Classifier *)

\* $ of a pattern compiled without re.MULTILINE: the end of the string, or
\* the position before a newline that ends the string
AtEnd(s, i) == i = Len(s) + 1 \/ (i = Len(s) /\ s[i] = "\n")

\* FILE_PATTERNS, each tried with pattern.match(filename), re.IGNORECASE
FileNameMatches(filename) ==
    LET readme == <<"r", "e", "a", "d", "m", "e">>
        dotall == CHOOSE i \in 1..(Len(filename) + 1) :
                      /\ \A j \in 1..(i - 1) : filename[j] # "\n"
                      /\ i = Len(filename) + 1 \/ filename[i] = "\n"
    IN  \/ \E lit \in { <<"m", "a", "i", "n", ".", "l", "u", "a">>,
                        <<"o", "p", "t", "i", "o", "n", "s", ".", "l", "u", "a">>,
                        <<"i", "n", "f", "o", ".", "t", "x", "t">> } :
              LiteralAt(filename, 1, lit, TRUE) /\ AtEnd(filename, Len(lit) + 1)
        \/ /\ LiteralAt(filename, 1, readme, TRUE)
           /\ \E i \in (Len(readme) + 1)..dotall : AtEnd(filename, i)

\* should_scan_file(file_path)
ShouldScanFile(file_path) == FileNameMatches(Name(file_path))

EndsWith(s, suffix) ==
    Len(suffix) <= Len(s) /\ SubSeq(s, Len(s) - Len(suffix) + 1, Len(s)) = suffix

\* extensions for which mimetypes.guess_type gives a type outside text/
NonTextSuffixes == { <<".", "p", "n", "g">>, <<".", "p", "d", "f">>, <<".", "z", "i", "p">> }

\* is_text_file(file_path)
IsTextFile(file_path, file) ==
    /\ ~\E suffix \in NonTextSuffixes : EndsWith(Lower(Name(file_path)), suffix)
    /\ file.readable
    /\ ~file.nul

\* results when the except clause of line 202 is reached: the dicts appended
\* before match.group(1) raised (n of them; -1 when it never raises)
ResultsUntil(found, n) == IF n = -1 THEN found ELSE SubSeq(found, 1, n)

\* mutant of ScanFile: a file of exactly max_file_size is skipped too
\* (>= instead of > at the size test)
ScanFile_GateAtLimit(scanner, file_path, file) ==
    IF file.size >= scanner.max_file_size THEN <<>>
    ELSE IF ~IsTextFile(file_path, file) THEN <<>>
    ELSE IF ~(file.readable /\ file.decodable) THEN <<>>
    ELSE ResultsUntil(ScanLines(scanner, PathStr(file_path), file.lines),
                      ResultsBeforeIndexError(scanner, file.lines))

\* scan_file(file_path): the result dicts of one file
ScanFile(scanner, file_path, file) ==
    IF file.size > scanner.max_file_size THEN <<>>
    ELSE IF ~IsTextFile(file_path, file) THEN <<>>
    ELSE IF ~(file.readable /\ file.decodable) THEN <<>>
    ELSE ResultsUntil(ScanLines(scanner, PathStr(file_path), file.lines),
                      ResultsBeforeIndexError(scanner, file.lines))

\* scan_file(file_path): the modes of the open calls made on the file, by
\* is_text_file ('rb') and by scan_file itself ('r')
ScanFileOpens(scanner, file_path, file) ==
    IF file.size > scanner.max_file_size THEN <<>>
    ELSE IF \E suffix \in NonTextSuffixes : EndsWith(Lower(Name(file_path)), suffix)
    THEN <<>>
    ELSE IF ~IsTextFile(file_path, file) THEN <<"rb">>
    ELSE <<"rb", "r">>

\* scan_file(file_path): the records it logs
ScanFileLog(scanner, file_path, file) ==
    IF file.size > scanner.max_file_size
    THEN << LogRecord("WARNING", "Skipping: file too large", PathStr(file_path)) >>
    ELSE IF ~IsTextFile(file_path, file)
    THEN << LogRecord("DEBUG", "Skipping: not a text file", PathStr(file_path)) >>
    ELSE IF \/ ~(file.readable /\ file.decodable)
            \/ ResultsBeforeIndexError(scanner, file.lines) # -1
    THEN << LogRecord("ERROR", "Error scanning", PathStr(file_path)) >>
    ELSE <<>>

-----------------------------------------------------------------------------
(* Mod Directory Resolver *)

\* has_mod_files / has_sub_mod_files of collect_mod_directories
HasModFiles(files, dir_path) ==
    \/ \E f \in {InfoTxt} \cup
                { n \in FileNames : /\ IsFile(files, Child(dir_path, n))
                                    /\ StartsWith(Lower(n), <<"r", "e", "a", "d", "m", "e">>) } :
          Exists(files, Child(dir_path, f))
    \/ \E f \in RglobFiles(files, dir_path) : ShouldScanFile(f)

\* mutant of ModDirsOfRoot: a root with mod files is added even when it has
\* mod subdirectories (if has_mod_files instead of elif has_mod_files)
ModDirsOfRoot_AlsoRoot(files, dir_path, order) ==
    IF ~(Exists(files, dir_path) /\ IsDir(dir_path)) THEN <<>>
    ELSE SelectSeq(Iterdir(files, dir_path, order),
                   LAMBDA sub_dir : IsDir(sub_dir) /\ HasModFiles(files, sub_dir))
         \o (IF HasModFiles(files, dir_path) THEN <<dir_path>> ELSE <<>>)

\* collect_mod_directories: what one input directory adds to mod_dirs
ModDirsOfRoot(files, dir_path, order) ==
    IF ~(Exists(files, dir_path) /\ IsDir(dir_path)) THEN <<>>
    ELSE LET sub_mods ==
                 SelectSeq(Iterdir(files, dir_path, order),
                           LAMBDA sub_dir : IsDir(sub_dir) /\ HasModFiles(files, sub_dir))
         IN  IF sub_mods # <<>> THEN sub_mods
             ELSE IF HasModFiles(files, dir_path) THEN <<dir_path>>
             ELSE <<>>

\* collect_mod_directories(directories)
CollectModDirectories(files, dirs, order) ==
    Concat([i \in DOMAIN dirs |-> ModDirsOfRoot(files, dirs[i], order)])

\* collect_mod_directories raises while it handles dir_path: the list of
\* readme names is built with iterdir() on the directory and on each of its
\* subdirectories, outside any try
ModDirsOfRootRaises(files, dir_path) ==
    /\ Exists(files, dir_path) /\ IsDir(dir_path)
    /\ \/ IterdirRaises(files, dir_path)
       \/ \E sub_dir \in Dirs :
             Len(sub_dir) > 1 /\ Parent(sub_dir) = dir_path /\ IterdirRaises(files, sub_dir)

\* collect_mod_directories(directories) raises
CollectRaises(files, dirs) ==
    \E i \in DOMAIN dirs : ModDirsOfRootRaises(files, dirs[i])

\* collect_mod_directories: the records logged for one input directory
ModDirsOfRootLog(files, dir_path, order) ==
    IF ~(Exists(files, dir_path) /\ IsDir(dir_path)) THEN <<>>
    ELSE IF ModDirsOfRoot(files, dir_path, order) = <<>>
         THEN << LogRecord("WARNING", "No mod files found in", PathStr(dir_path)) >>
         ELSE IF ModDirsOfRoot(files, dir_path, order) = <<dir_path>> THEN <<>>
         ELSE << LogRecord("INFO", "Found mod subdirectories in", PathStr(dir_path)) >>

\* collect_mod_directories(directories): the records it logs
CollectLog(files, dirs, order) ==
    Concat([i \in DOMAIN dirs |-> ModDirsOfRootLog(files, dirs[i], order)])

NoName == [found |-> FALSE, name |-> <<>>, heading |-> FALSE]

\* re.match(r'^\s*(?:name|title|mod_name)\s*[=:]\s*(.+)$', line, re.IGNORECASE)
\* and match.group(1).strip()
NameField(line) ==
    LET start == SkipSpaces(line, 1)
        keys  == { <<"n", "a", "m", "e">>, <<"t", "i", "t", "l", "e">>, <<"m", "o", "d", "_", "n", "a", "m", "e">> }
        sepAt(key) == SkipSpaces(line, start + Len(key))
        hits  == { key \in keys :
                     /\ LiteralAt(line, start, key, TRUE)
                     /\ sepAt(key) < Len(line)
                     /\ line[sepAt(key)] \in {"=", ":"} }
    IN  IF hits = {} THEN NoName
        ELSE LET key == CHOOSE k \in hits : TRUE
             IN  [found |-> TRUE,
                  name  |-> Strip(SubSeq(line, sepAt(key) + 1, Len(line))),
                  heading |-> FALSE]

\* extract_mod_name, the loop over the lines of info.txt
RECURSIVE InfoName(_)
InfoName(lines) ==
    IF lines = <<>> THEN NoName
    ELSE IF NameField(Head(lines)).found THEN NameField(Head(lines))
    ELSE InfoName(Tail(lines))

\* extract_mod_name, the loop over the lines of one readme file
RECURSIVE ReadmeName(_)
ReadmeName(lines) ==
    IF lines = <<>> THEN NoName
    ELSE LET line == Strip(Head(lines))
         IN  IF line = <<>> THEN ReadmeName(Tail(lines))
             ELSE IF StartsWith(line, <<"#", " ">>)
                  THEN [found |-> TRUE, name |-> Strip(SubSeq(line, 3, Len(line))),
                        heading |-> TRUE]
                  ELSE [found |-> TRUE, name |-> line, heading |-> FALSE]

\* extract_mod_name, the loop over dir_path.iterdir() from entry i on
RECURSIVE ReadmeNameFrom(_, _, _)
ReadmeNameFrom(files, entries, i) ==
    IF i > Len(entries) THEN NoName
    ELSE LET file_path == entries[i]
             file == files[file_path]
             name == IF /\ IsFile(files, file_path)
                        /\ StartsWith(Lower(Name(file_path)), <<"r", "e", "a", "d", "m", "e">>)
                        /\ file.readable /\ file.decodable
                     THEN ReadmeName(file.lines) ELSE NoName
         IN  IF name.found THEN name ELSE ReadmeNameFrom(files, entries, i + 1)

\* extract_mod_name: the file at dir_path / 'info.txt'
InfoFile(files, dir_path) ==
    IF IsFile(files, Child(dir_path, InfoTxt)) THEN files[Child(dir_path, InfoTxt)] ELSE NoFile

\* extract_mod_name: what info.txt gives
InfoTxtName(files, dir_path) ==
    LET info_file == InfoFile(files, dir_path)
    IN  IF info_file.exists /\ info_file.readable /\ info_file.decodable
        THEN InfoName(info_file.lines) ELSE NoName

\* mutant of ExtractModName: the readme files are tried before info.txt
ExtractModName_ReadmeFirst(files, dir_path, order) ==
    LET info == InfoTxtName(files, dir_path)
        readme == ReadmeNameFrom(files, Iterdir(files, dir_path, order), 1)
    IN  IF readme.found THEN readme.name
        ELSE IF info.found THEN info.name
        ELSE Name(dir_path)

\* extract_mod_name(dir_path)
ExtractModName(files, dir_path, order) ==
    LET info == InfoTxtName(files, dir_path)
        readme == ReadmeNameFrom(files, Iterdir(files, dir_path, order), 1)
    IN  IF info.found THEN info.name
        ELSE IF readme.found THEN readme.name
        ELSE Name(dir_path)

\* extract_mod_name(dir_path) raises: dir_path.iterdir() stands outside the
\* try blocks and is reached when info.txt gave no name
ExtractModNameRaises(files, dir_path) ==
    ~InfoTxtName(files, dir_path).found /\ IterdirRaises(files, dir_path)

\* extract_mod_name: the records logged for the readme files from entry i on
RECURSIVE ReadmeLogFrom(_, _, _)
ReadmeLogFrom(files, entries, i) ==
    IF i > Len(entries) THEN <<>>
    ELSE LET file_path == entries[i]
             file == files[file_path]
         IN  IF ~(/\ IsFile(files, file_path)
                  /\ StartsWith(Lower(Name(file_path)), <<"r", "e", "a", "d", "m", "e">>))
             THEN ReadmeLogFrom(files, entries, i + 1)
             ELSE << LogRecord("DEBUG", "Checking for mod name", PathStr(file_path)) >> \o
                  ( IF ~(file.readable /\ file.decodable)
                    THEN << LogRecord("WARNING", "Error reading", PathStr(file_path)) >>
                         \o ReadmeLogFrom(files, entries, i + 1)
                    ELSE IF ReadmeName(file.lines).found
                    THEN << LogRecord("DEBUG",
                                      IF ReadmeName(file.lines).heading
                                      THEN "Found mod name in" ELSE "Using first line as mod name",
                                      PathStr(file_path)) >>
                    ELSE ReadmeLogFrom(files, entries, i + 1) )

\* extract_mod_name(dir_path): the records it logs when it returns
ExtractModNameLog(files, dir_path, order) ==
    LET info_file == InfoFile(files, dir_path)
        info_path == PathStr(Child(dir_path, InfoTxt))
        info == InfoTxtName(files, dir_path)
        entries == Iterdir(files, dir_path, order)
        readme == ReadmeNameFrom(files, entries, 1)
    IN  ( IF ~info_file.exists
          THEN << LogRecord("DEBUG", "does not exist", info_path) >>
          ELSE << LogRecord("DEBUG", "Checking for mod name", info_path) >> \o
               ( IF ~(info_file.readable /\ info_file.decodable)
                 THEN << LogRecord("WARNING", "Error reading", info_path) >>
                 ELSE IF info.found
                 THEN << LogRecord("DEBUG", "Found mod name in", info_path) >>
                 ELSE << LogRecord("DEBUG", "No name field found in", info_path) >> ) )
        \o ( IF info.found THEN <<>>
             ELSE ReadmeLogFrom(files, entries, 1) \o
                  ( IF readme.found THEN <<>>
                    ELSE << LogRecord("DEBUG", "No mod name found for", PathStr(dir_path)),
                            LogRecord("DEBUG", "Using directory name as fallback", Name(dir_path)) >> ) )

-----------------------------------------------------------------------------
(* Status Resolver *)

\* An attribute of an element: absent, or present with a str value.
NoAttr == [has |-> FALSE, s |-> <<>>]
Attr(s) == [has |-> TRUE, s |-> s]

\* a child element of the root of the manifest
Element(tag, id, active) == [tag |-> tag, id |-> id, active |-> active]

ModTag == <<"m", "o", "d">>

\* the position of the first '-' of s, or 0
FirstDash(s) ==
    IF \E i \in DOMAIN s : s[i] = "-"
    THEN CHOOSE i \in DOMAIN s : s[i] = "-" /\ \A j \in 1..(i - 1) : s[j] # "-"
    ELSE 0

\* mod_elem.get('active', 'false').lower() == 'true'
IsActive(mod_elem) ==
    Lower(IF mod_elem.active.has THEN mod_elem.active.s ELSE <<"f", "a", "l", "s", "e">>)
        = <<"t", "r", "u", "e">>

\* mutant of ModDirName: mod_id.rsplit('-', 1)[1]
ModDirName_LastDash(mod_id) ==
    LET dash == CHOOSE i \in DOMAIN mod_id :
                    mod_id[i] = "-" /\ \A j \in (i + 1)..Len(mod_id) : mod_id[j] # "-"
    IN  SubSeq(mod_id, dash + 1, Len(mod_id))

\* mod_id.split('-', 1)[1], for a mod_id with a '-'
ModDirName(mod_id) == SubSeq(mod_id, FirstDash(mod_id) + 1, Len(mod_id))

\* parse_mod_status_xml: mod_status after the loop over root.findall('mod')
\* has handled the first n children of the root
RECURSIVE ModStatusAfter(_, _)
ModStatusAfter(children, n) ==
    IF n = 0 THEN <<>>
    ELSE LET mod_elem == children[n]
             prev     == ModStatusAfter(children, n - 1)
         IN  IF /\ mod_elem.tag = ModTag
                /\ mod_elem.id.has /\ mod_elem.id.s # <<>>
                /\ FirstDash(mod_elem.id.s) # 0
             THEN DictSet(prev, ModDirName(mod_elem.id.s), IsActive(mod_elem))
             ELSE prev

\* A manifest path: not given ("none"), a path at which nothing exists
\* ("missing"), a file ET.parse cannot read or parse ("malformed"), or a
\* well-formed document ("doc") with the children of its root.
Manifest(kind, children) == [kind |-> kind, children |-> children]

\* parse_mod_status_xml(xml_path): any exception leaves mod_status empty
ParseModStatusXml(xml) ==
    IF xml.kind = "doc" THEN ModStatusAfter(xml.children, Len(xml.children))
    ELSE <<>>

\* scan_directories: mod_status
LoadModStatus(xml) ==
    IF xml.kind # "none" /\ xml.kind # "missing" THEN ParseModStatusXml(xml) ELSE <<>>

\* mutant of IsEnabled: mod_status.get(mod_dir_name, False)
IsEnabled_DefaultFalse(status, mod_dir_name) ==
    IF DictHas(status, mod_dir_name) THEN DictGet(status, mod_dir_name) ELSE FALSE

\* mod_status.get(mod_dir_name, True)
IsEnabled(status, mod_dir_name) ==
    IF DictHas(status, mod_dir_name) THEN DictGet(status, mod_dir_name) ELSE TRUE

-----------------------------------------------------------------------------
(* scan_directories *)

\* result['mod_name'] = mod_name and result['mod_enabled'] = is_enabled, for
\* every result of one file
WithMod(found, mod_name, is_enabled) ==
    [j \in DOMAIN found |->
        RawMatch(found[j].file_path, found[j].line_number.n, found[j].key_name,
                 found[j].context, found[j].matched_text, mod_name, is_enabled)]

\* the raw matches of one resolved mod directory: os.walk, should_scan_file,
\* scan_file, and the mod fields added to every result
ModResults(scanner, files, dir_path, mod_name, is_enabled, order) ==
    LET walked == SelectSeq(WalkFiles(files, dir_path, order), ShouldScanFile)
    IN  Concat([i \in DOMAIN walked |->
            WithMod(ScanFile(scanner, walked[i], files[walked[i]]), mod_name, is_enabled)])

\* all_results after the loop over mod_dirs
AllResults(scanner, files, dirs, status, dry, order) ==
    Concat([i \in DOMAIN dirs |->
        IF ~(Exists(files, dirs[i]) /\ IsDir(dirs[i])) \/ dry THEN <<>>
        ELSE ModResults(scanner, files, dirs[i],
                        ExtractModName(files, dirs[i], order),
                        IsEnabled(status, Name(dirs[i])), order)])

\* mod_info after the loop over mod_dirs[1..n]
RECURSIVE ModInfo(_, _, _, _, _)
ModInfo(files, dirs, status, order, n) ==
    IF n = 0 THEN <<>>
    ELSE LET prev == ModInfo(files, dirs, status, order, n - 1)
         IN  IF ~(Exists(files, dirs[n]) /\ IsDir(dirs[n])) THEN prev
             ELSE DictSet(prev, PathStr(dirs[n]),
                          [name    |-> ExtractModName(files, dirs[n], order),
                           enabled |-> IsEnabled(status, Name(dirs[n]))])

\* mutant of TotalFilesScanned: len([r['file_path'] for r in all_results])
TotalFilesScanned_NoSet(all_results) == Len(all_results)

\* len(set(r['file_path'] for r in all_results))
TotalFilesScanned(all_results) ==
    Cardinality({ r.file_path : r \in Range(all_results) })

\* the dict scan_directories returns
ScanData(all_results, mod_info) ==
    [results             |-> all_results,
     aggregated          |-> AggregateResults(all_results),
     mod_info            |-> mod_info,
     total_files_scanned |-> TotalFilesScanned(all_results),
     total_matches       |-> Len(all_results)]

\* the path the manifest is passed at
ModsXml == << <<"m", "o", "d", "s", ".", "x", "m", "l">> >>

\* parse_mod_status_xml(xml_path): the records it logs; the records of the
\* elements name a mod, not a path
ParseModStatusLog(xml) ==
    IF xml.kind = "doc"
    THEN Concat([i \in DOMAIN xml.children |->
            LET mod_elem == xml.children[i]
            IN  IF ~(mod_elem.tag = ModTag /\ mod_elem.id.has /\ mod_elem.id.s # <<>>)
                THEN <<>>
                ELSE IF FirstDash(mod_elem.id.s) # 0
                THEN << LogRecord("DEBUG", "Parsed mod status", <<>>) >>
                ELSE << LogRecord("WARNING", "Invalid mod id format", <<>>) >>])
    ELSE << LogRecord("ERROR", "Error parsing mod status XML", PathStr(ModsXml)) >>

\* scan_directories: the records logged while mod_status is built
LoadModStatusLog(xml) ==
    IF xml.kind # "none" /\ xml.kind # "missing"
    THEN ParseModStatusLog(xml)
         \o << LogRecord("INFO", "Loaded status for mods from", PathStr(ModsXml)) >>
    ELSE <<>>

\* scan_directories: the records logged by one turn of the loop over mod_dirs
ModLog(scanner, files, dir_path, dry, order) ==
    IF ~(Exists(files, dir_path) /\ IsDir(dir_path))
    THEN << LogRecord("WARNING", "Directory does not exist", PathStr(dir_path)) >>
    ELSE << LogRecord("INFO", "Scanning directory", PathStr(dir_path)) >>
         \o ExtractModNameLog(files, dir_path, order)
         \o ( IF dry THEN <<>>
              ELSE LET walked == SelectSeq(WalkFiles(files, dir_path, order), ShouldScanFile)
                   IN  Concat([i \in DOMAIN walked |->
                           << LogRecord("DEBUG", "Scanning file", PathStr(walked[i])) >>
                           \o ScanFileLog(scanner, walked[i], files[walked[i]])]) )

\* the first input directory at which collect_mod_directories raises
FirstRaising(files, dirs) ==
    CHOOSE i \in DOMAIN dirs :
        /\ ModDirsOfRootRaises(files, dirs[i])
        /\ \A j \in 1..(i - 1) : ~ModDirsOfRootRaises(files, dirs[j])

\* scan_directories: the records logged after collect_mod_directories
\* returned mod_dirs
ScanLogAfterCollect(scanner, files, resolved, xml, dry, order) ==
    LoadModStatusLog(xml)
    \o Concat([i \in DOMAIN resolved |-> ModLog(scanner, files, resolved[i], dry, order)])

\* scan_directories: the records logged until it returns or raises
ScanLog(scanner, files, dirs, xml, dry, order) ==
    IF CollectRaises(files, dirs)
    THEN CollectLog(files, SubSeq(dirs, 1, FirstRaising(files, dirs) - 1), order)
    ELSE CollectLog(files, dirs, order)
         \o ScanLogAfterCollect(scanner, files, CollectModDirectories(files, dirs, order),
                                xml, dry, order)

\* the dict of a call that did not return
NoScanData ==
    [results |-> <<>>, aggregated |-> <<>>, mod_info |-> <<>>,
     total_files_scanned |-> 0, total_matches |-> 0]

\* what a call of scan_directories leaves: whether it returned ("done") or
\* raised, mod_dirs, mod_status and the dict returned
Outcome(pc, resolved, status, data) ==
    [pc |-> pc, mod_dirs |-> resolved, mod_status |-> status, data |-> data]

\* scan_directories from line 299 on: aggregate_results and the return
ScanReturn(resolved, status, all_results, mod_info) ==
    IF AggregateRaises(all_results)
    THEN Outcome("raised", resolved, status, NoScanData)
    ELSE Outcome("done", resolved, status, ScanData(all_results, mod_info))

\* scan_directories from line 257 on, mod_dirs being resolved
ScanModDirs(scanner, files, resolved, status, dry, order) ==
    ScanReturn(resolved, status,
               AllResults(scanner, files, resolved, status, dry, order),
               ModInfo(files, resolved, status, order, Len(resolved)))

\* scan_directories(dirs, dry, xml), the directories being listed in this
\* order. It raises when collect_mod_directories does (line 254) or
\* aggregate_results does (line 299); extract_mod_name (line 271) is only
\* called on directories that collect_mod_directories has listed.
ScanOutcome(scanner, files, dirs, xml, dry, order) ==
    IF CollectRaises(files, dirs) THEN Outcome("raised", <<>>, <<>>, NoScanData)
    ELSE ScanModDirs(scanner, files, CollectModDirectories(files, dirs, order),
                     LoadModStatus(xml), dry, order)

-----------------------------------------------------------------------------
(* json: the values json.dump accepts, its encoder and json.load *)

\* A Python value made of str, int, bool, list and dict with str keys. The
\* items of a list are values; the items of a dict are entries
\* [k |-> key, v |-> value] in insertion order.
JStr(s)      == [t |-> "str",  s |-> s,    n |-> 0, b |-> FALSE, items |-> <<>>]
JInt(n)      == [t |-> "int",  s |-> <<>>, n |-> n, b |-> FALSE, items |-> <<>>]
JBool(b)     == [t |-> "bool", s |-> <<>>, n |-> 0, b |-> b,     items |-> <<>>]
JList(items) == [t |-> "list", s |-> <<>>, n |-> 0, b |-> FALSE, items |-> items]
JDict(items) == [t |-> "dict", s |-> <<>>, n |-> 0, b |-> FALSE, items |-> items]

\* json.encoder.ESCAPE_DCT, for the characters of the model
EscapeChar(c) ==
    IF c = "\"" THEN <<"\\", "\"">>
    ELSE IF c = "\\" THEN <<"\\", "\\">>
    ELSE IF c = "\n" THEN <<"\\", "n">>
    ELSE IF c = "\r" THEN <<"\\", "r">>
    ELSE IF c = "\t" THEN <<"\\", "t">>
    ELSE <<c>>

\* json.encoder.encode_basestring(s), as ensure_ascii=False selects it
EncodeBasestring(s) ==
    <<"\"">> \o Concat([i \in DOMAIN s |-> EscapeChar(s[i])]) \o <<"\"">>

\* '\n' + indent * level, with indent=2
NewlineIndent(level) == <<"\n">> \o [i \in 1..(2 * level) |-> " "]

\* the values the encoder writes in one chunk
IsScalar(o) == o.t \in {"str", "int", "bool"}

Scalar(o) ==
    IF o.t = "str" THEN EncodeBasestring(o.s)
    ELSE IF o.t = "int" THEN Str(o.n)
    ELSE IF o.b THEN <<"t", "r", "u", "e">> ELSE <<"f", "a", "l", "s", "e">>

\* the chunks json.encoder._make_iterencode yields for o at this level
RECURSIVE Iterencode(_, _)
Iterencode(o, level) ==
    IF IsScalar(o) THEN << Scalar(o) >>
    ELSE IF o.t = "list"
    THEN IF o.items = <<>> THEN << <<"[", "]">> >>
         ELSE Concat([i \in DOMAIN o.items |->
                  IF IsScalar(o.items[i])
                  THEN << (IF i = 1 THEN <<"[">> ELSE <<",">>)
                          \o NewlineIndent(level + 1) \o Scalar(o.items[i]) >>
                  ELSE << (IF i = 1 THEN <<"[">> ELSE <<",">>)
                          \o NewlineIndent(level + 1) >>
                       \o Iterencode(o.items[i], level + 1)])
              \o << NewlineIndent(level), <<"]">> >>
    ELSE IF o.items = <<>> THEN << <<"{", "}">> >>
         ELSE << <<"{">>, NewlineIndent(level + 1) >>
              \o Concat([i \in DOMAIN o.items |->
                     (IF i = 1 THEN <<>> ELSE << <<",">> \o NewlineIndent(level + 1) >>)
                     \o << EncodeBasestring(o.items[i].k), <<":", " ">> >>
                     \o Iterencode(o.items[i].v, level + 1)])
              \o << NewlineIndent(level), <<"}">> >>

\* a text the file object can encode to UTF-8
Utf8Encodable(text) == \A i \in DOMAIN text : text[i] # Surrogate

\* the chunks written before the first one f.write cannot encode
WrittenBeforeError(chunks) ==
    IF \A i \in DOMAIN chunks : Utf8Encodable(chunks[i]) THEN chunks
    ELSE SubSeq(chunks, 1,
                (CHOOSE i \in DOMAIN chunks :
                    /\ ~Utf8Encodable(chunks[i])
                    /\ \A j \in 1..(i - 1) : Utf8Encodable(chunks[j])) - 1)

\* a series of f.write(chunk) raises UnicodeEncodeError
WriteRaises(chunks) == \E i \in DOMAIN chunks : ~Utf8Encodable(chunks[i])

\* the text of the file after the writes, and after the close that ends
\* the with block
WrittenText(chunks) == Concat(WrittenBeforeError(chunks))

\* what json.load gives: a value and the position after it, or an error
Parsed(val, pos) == [ok |-> TRUE, val |-> val, pos |-> pos]
ParseError == [ok |-> FALSE, val |-> JBool(FALSE), pos |-> 0]

\* the first position from i on whose character is in stops, or the position
\* after the text
FirstOf(text, i, stops) ==
    CHOOSE j \in i..(Len(text) + 1) :
        /\ j = Len(text) + 1 \/ text[j] \in stops
        /\ \A k \in i..(j - 1) : text[k] \notin stops

\* json.decoder.WHITESPACE.match(text, i).end()
SkipJsonSpace(text, i) ==
    CHOOSE j \in i..(Len(text) + 1) :
        /\ j = Len(text) + 1 \/ text[j] \notin {" ", "\t", "\n", "\r"}
        /\ \A k \in i..(j - 1) : text[k] \in {" ", "\t", "\n", "\r"}

\* json.decoder.BACKSLASH, for the characters of the model
Unescaped(c) ==
    IF c = "n" THEN "\n"
    ELSE IF c = "r" THEN "\r"
    ELSE IF c = "t" THEN "\t"
    ELSE c

\* json.decoder.STRINGCHUNK matched at position i: the position of the
\* terminator of the chunk, a quote, a backslash or a control character
StringChunk(text, i) == FirstOf(text, i, {"\"", "\\", "\n", "\r", "\t"})

\* json.decoder.py_scanstring from position i, after the opening quote;
\* acc holds the characters read so far
RECURSIVE ScanString(_, _, _)
RECURSIVE AfterChunk(_, _, _)

ScanString(text, i, acc) ==
    AfterChunk(text, StringChunk(text, i), acc \o SubSeq(text, i, StringChunk(text, i) - 1))

\* py_scanstring after a chunk: its terminator stands at position j
AfterChunk(text, j, acc) ==
    IF j > Len(text) THEN ParseError
    ELSE IF text[j] = "\"" THEN Parsed(JStr(acc), j + 1)
    ELSE IF text[j] # "\\" THEN ParseError
    ELSE IF j + 1 > Len(text) THEN ParseError
    ELSE IF text[j + 1] \in {"\"", "\\", "/", "n", "r", "t"}
    THEN ScanString(text, j + 2, Append(acc, Unescaped(text[j + 1])))
    ELSE ParseError

\* json.scanner NUMBER_RE for an int without sign: the digits from i on
RECURSIVE ScanInt(_, _, _)
ScanInt(text, i, n) ==
    IF i <= Len(text) /\ text[i] \in Range(Digits)
    THEN ScanInt(text, i + 1, 10 * n + ((CHOOSE d \in DOMAIN Digits : Digits[d] = text[i]) - 1))
    ELSE Parsed(JInt(n), i)

\* dict[key] = value for the entries of a dict being parsed
JDictSet(items, k, v) ==
    IF \E i \in DOMAIN items : items[i].k = k
    THEN [i \in DOMAIN items |-> IF items[i].k = k THEN [k |-> k, v |-> v] ELSE items[i]]
    ELSE Append(items, [k |-> k, v |-> v])

\* json.scanner.py_make_scanner._scan_once at position i, with
\* json.decoder.JSONArray and JSONObject
RECURSIVE ScanOnce(_, _)
RECURSIVE ArrayFrom(_, _, _)
RECURSIVE ArrayAfter(_, _, _)
RECURSIVE ObjectFrom(_, _, _)
RECURSIVE ObjectValue(_, _, _)
RECURSIVE ObjectAfter(_, _, _, _)

ScanOnce(text, i) ==
    IF i > Len(text) THEN ParseError
    ELSE IF text[i] = "\"" THEN ScanString(text, i + 1, <<>>)
    ELSE IF text[i] = "{"
    THEN IF SkipJsonSpace(text, i + 1) <= Len(text) /\ text[SkipJsonSpace(text, i + 1)] = "}"
         THEN Parsed(JDict(<<>>), SkipJsonSpace(text, i + 1) + 1)
         ELSE ObjectFrom(text, SkipJsonSpace(text, i + 1), <<>>)
    ELSE IF text[i] = "["
    THEN IF SkipJsonSpace(text, i + 1) <= Len(text) /\ text[SkipJsonSpace(text, i + 1)] = "]"
         THEN Parsed(JList(<<>>), SkipJsonSpace(text, i + 1) + 1)
         ELSE ArrayFrom(text, SkipJsonSpace(text, i + 1), <<>>)
    ELSE IF LiteralAt(text, i, <<"t", "r", "u", "e">>, FALSE) THEN Parsed(JBool(TRUE), i + 4)
    ELSE IF LiteralAt(text, i, <<"f", "a", "l", "s", "e">>, FALSE) THEN Parsed(JBool(FALSE), i + 5)
    ELSE IF text[i] \in Range(Digits) THEN ScanInt(text, i, 0)
    ELSE ParseError

\* JSONArray: the next value of the array starts at i
ArrayFrom(text, i, acc) == ArrayAfter(text, ScanOnce(text, i), acc)

\* JSONArray: after a value of the array was scanned
ArrayAfter(text, value, acc) ==
    IF ~value.ok THEN ParseError
    ELSE IF SkipJsonSpace(text, value.pos) > Len(text) THEN ParseError
    ELSE IF text[SkipJsonSpace(text, value.pos)] = "]"
    THEN Parsed(JList(Append(acc, value.val)), SkipJsonSpace(text, value.pos) + 1)
    ELSE IF text[SkipJsonSpace(text, value.pos)] = ","
    THEN ArrayFrom(text, SkipJsonSpace(text, SkipJsonSpace(text, value.pos) + 1),
                   Append(acc, value.val))
    ELSE ParseError

\* JSONObject: the next key of the object starts at i
ObjectFrom(text, i, acc) ==
    IF i > Len(text) \/ text[i] # "\"" THEN ParseError
    ELSE ObjectValue(text, ScanString(text, i + 1, <<>>), acc)

\* JSONObject: after a key was scanned: the colon and the value
ObjectValue(text, key, acc) ==
    IF ~key.ok THEN ParseError
    ELSE IF SkipJsonSpace(text, key.pos) > Len(text) THEN ParseError
    ELSE IF text[SkipJsonSpace(text, key.pos)] # ":" THEN ParseError
    ELSE ObjectAfter(text, key.val.s,
                     ScanOnce(text, SkipJsonSpace(text, SkipJsonSpace(text, key.pos) + 1)),
                     acc)

\* JSONObject: after the value of a key was scanned
ObjectAfter(text, k, value, acc) ==
    IF ~value.ok THEN ParseError
    ELSE IF SkipJsonSpace(text, value.pos) > Len(text) THEN ParseError
    ELSE IF text[SkipJsonSpace(text, value.pos)] = "}"
    THEN Parsed(JDict(JDictSet(acc, k, value.val)), SkipJsonSpace(text, value.pos) + 1)
    ELSE IF text[SkipJsonSpace(text, value.pos)] = ","
    THEN ObjectFrom(text, SkipJsonSpace(text, SkipJsonSpace(text, value.pos) + 1),
                    JDictSet(acc, k, value.val))
    ELSE ParseError

\* JSONDecoder.decode: one value, with nothing but whitespace around it
DecodeEnd(text, value) ==
    IF value.ok /\ SkipJsonSpace(text, value.pos) = Len(text) + 1 THEN value
    ELSE ParseError

\* json.load(f) for a file with this text
JsonLoad(text) == DecodeEnd(text, ScanOnce(text, SkipJsonSpace(text, 1)))

-----------------------------------------------------------------------------
(* csv: the writer of csv.DictWriter and csv.reader, in the excel dialect *)

\* str(value) of a field of a raw match, as the writer takes it
CsvStr(r, name) ==
    IF name = <<"f", "i", "l", "e", "_", "p", "a", "t", "h">> THEN r.file_path
    ELSE IF name = <<"l", "i", "n", "e", "_", "n", "u", "m", "b", "e", "r">> THEN StrOf(r.line_number)
    ELSE IF name = <<"k", "e", "y", "_", "n", "a", "m", "e">> THEN r.key_name
    ELSE IF name = <<"c", "o", "n", "t", "e", "x", "t">> THEN r.context
    ELSE IF name = <<"m", "a", "t", "c", "h", "e", "d", "_", "t", "e", "x", "t">> THEN r.matched_text
    ELSE IF name = <<"m", "o", "d", "_", "n", "a", "m", "e">> THEN r.mod_name
    ELSE IF r.mod_enabled THEN <<"T", "r", "u", "e">> ELSE <<"F", "a", "l", "s", "e">>

\* QUOTE_MINIMAL: a field is quoted when it holds the delimiter, the quote
\* character or a character of the line terminator
NeedsQuote(field) == \E i \in DOMAIN field : field[i] \in {",", "\"", "\r", "\n"}

\* the field as written: quoted when needed, its quote characters doubled
CsvField(field) ==
    IF NeedsQuote(field)
    THEN <<"\"">>
         \o Concat([i \in DOMAIN field |->
                IF field[i] = "\"" THEN <<"\"", "\"">> ELSE <<field[i]>>])
         \o <<"\"">>
    ELSE field

\* writer.writerow(fields): the line passed to f.write
CsvRow(fields) ==
    Join(<<",">>, [i \in DOMAIN fields |-> CsvField(fields[i])]) \o <<"\r", "\n">>

\* scan_data['results'][0].keys(): the keys of a raw match, in the order in
\* which scan_file and scan_directories set them
FieldNames ==
    << <<"f", "i", "l", "e", "_", "p", "a", "t", "h">>, <<"l", "i", "n", "e", "_", "n", "u", "m", "b", "e", "r">>, <<"k", "e", "y", "_", "n", "a", "m", "e">>, <<"c", "o", "n", "t", "e", "x", "t">>, <<"m", "a", "t", "c", "h", "e", "d", "_", "t", "e", "x", "t">>,
       <<"m", "o", "d", "_", "n", "a", "m", "e">>, <<"m", "o", "d", "_", "e", "n", "a", "b", "l", "e", "d">> >>

\* the fields of the row DictWriter writes for a raw match
RowOf(r) == [i \in DOMAIN FieldNames |-> CsvStr(r, FieldNames[i])]

\* writeheader() and writerows(results): the lines written, one f.write each
CsvLines(rs) ==
    IF rs = <<>> THEN <<>>
    ELSE <<CsvRow(FieldNames)>> \o [i \in DOMAIN rs |-> CsvRow(RowOf(rs[i]))]

\* the position after the line terminator that starts at position i
AfterNewline(text, i) ==
    IF text[i] = "\r" /\ i + 1 <= Len(text) /\ text[i + 1] = "\n" THEN i + 2 ELSE i + 1

\* a field read so far: its characters and the position after them
Field(chars, pos) == [chars |-> chars, pos |-> pos]

\* csv.reader in a field, outside quotes, at position i: the field ends
\* before a delimiter or a line terminator
InField(text, i, acc) ==
    Field(acc \o SubSeq(text, i, FirstOf(text, i, {",", "\r", "\n"}) - 1),
          FirstOf(text, i, {",", "\r", "\n"}))

\* csv.reader in a quoted field at position i: a doubled quote stands for
\* one quote character, a single one ends the quoted part
RECURSIVE InQuotedField(_, _, _)
RECURSIVE AtQuote(_, _, _)

InQuotedField(text, i, acc) ==
    AtQuote(text, FirstOf(text, i, {"\""}),
            acc \o SubSeq(text, i, FirstOf(text, i, {"\""}) - 1))

\* csv.reader in a quoted field, at the quote character at position j
AtQuote(text, j, acc) ==
    IF j > Len(text) THEN Field(acc, j)
    ELSE IF j + 1 <= Len(text) /\ text[j + 1] = "\""
    THEN InQuotedField(text, j + 2, Append(acc, "\""))
    ELSE InField(text, j + 1, acc)

\* the field that starts at position i
FieldAt(text, i) ==
    IF text[i] = "\"" THEN InQuotedField(text, i + 1, <<>>)
    ELSE InField(text, i, <<>>)

\* csv.reader over this text: the rows
\* from position i on, row holding the fields read of the current record
RECURSIVE CsvReader(_, _, _)
RECURSIVE CsvAfterField(_, _, _)

CsvReader(text, i, row) ==
    IF i > Len(text) THEN (IF row = <<>> THEN <<>> ELSE << Append(row, <<>>) >>)
    ELSE IF row = <<>> /\ text[i] \in {"\r", "\n"}
    THEN << <<>> >> \o CsvReader(text, AfterNewline(text, i), <<>>)
    ELSE CsvAfterField(text, FieldAt(text, i), row)

\* csv.reader after a field was read
CsvAfterField(text, field, row) ==
    IF field.pos > Len(text) THEN << Append(row, field.chars) >>
    ELSE IF text[field.pos] = ","
    THEN CsvReader(text, field.pos + 1, Append(row, field.chars))
    ELSE << Append(row, field.chars) >>
         \o CsvReader(text, AfterNewline(text, field.pos), <<>>)

\* what a file opened for reading with the default newline gives for this
\* text: "\r\n" and "\r" are read as "\n" (the "\n" of a pair is marked
\* by the empty string, then left out)
UniversalNewlines(text) ==
    SelectSeq([i \in DOMAIN text |->
                  IF text[i] = "\n" /\ i > 1 /\ text[i - 1] = "\r" THEN ""
                  ELSE IF text[i] = "\r" THEN "\n"
                  ELSE text[i]],
              LAMBDA c : c # "")

\* the rows of the reader of csv.DictReader(f), the header first, for a file
\* with this text
CsvRead(text) == CsvReader(UniversalNewlines(text), 1, <<>>)

-----------------------------------------------------------------------------
(* save_results *)

\* a raw match, or a merged record, as the Python dict it is
JResult(r) ==
    JDict(<< [k |-> <<"f", "i", "l", "e", "_", "p", "a", "t", "h">>, v |-> JStr(r.file_path)],
             [k |-> <<"l", "i", "n", "e", "_", "n", "u", "m", "b", "e", "r">>,
              v |-> IF r.line_number.t = "int" THEN JInt(r.line_number.n)
                    ELSE JStr(r.line_number.s)],
             [k |-> <<"k", "e", "y", "_", "n", "a", "m", "e">>, v |-> JStr(r.key_name)],
             [k |-> <<"c", "o", "n", "t", "e", "x", "t">>, v |-> JStr(r.context)],
             [k |-> <<"m", "a", "t", "c", "h", "e", "d", "_", "t", "e", "x", "t">>, v |-> JStr(r.matched_text)],
             [k |-> <<"m", "o", "d", "_", "n", "a", "m", "e">>, v |-> JStr(r.mod_name)],
             [k |-> <<"m", "o", "d", "_", "e", "n", "a", "b", "l", "e", "d">>, v |-> JBool(r.mod_enabled)] >>)

JResults(rs) == JList([i \in DOMAIN rs |-> JResult(rs[i])])

\* the dict scan_directories returned, as the Python value passed to json.dump
JScanData(data) ==
    JDict(<< [k |-> <<"r", "e", "s", "u", "l", "t", "s">>, v |-> JResults(data.results)],
             [k |-> <<"a", "g", "g", "r", "e", "g", "a", "t", "e", "d">>,
              v |-> JDict([i \in DOMAIN data.aggregated |->
                        [k |-> data.aggregated[i].k,
                         v |-> JResults(data.aggregated[i].v)]])],
             [k |-> <<"m", "o", "d", "_", "i", "n", "f", "o">>,
              v |-> JDict([i \in DOMAIN data.mod_info |->
                        [k |-> data.mod_info[i].k,
                         v |-> JDict(<< [k |-> <<"n", "a", "m", "e">>, v |-> JStr(data.mod_info[i].v.name)],
                                        [k |-> <<"e", "n", "a", "b", "l", "e", "d">>,
                                         v |-> JBool(data.mod_info[i].v.enabled)] >>)]])],
             [k |-> <<"t", "o", "t", "a", "l", "_", "f", "i", "l", "e", "s", "_", "s", "c", "a", "n", "n", "e", "d">>, v |-> JInt(data.total_files_scanned)],
             [k |-> <<"t", "o", "t", "a", "l", "_", "m", "a", "t", "c", "h", "e", "s">>, v |-> JInt(data.total_matches)] >>)

\* an output file: absent, or present with its text
NoOutput == [exists |-> FALSE, text |-> <<>>]
Output(text) == [exists |-> TRUE, text |-> text]

\* json.dump(scan_data, f, indent=2, ensure_ascii=False): one f.write per chunk
JsonChunks(data) == Iterencode(JScanData(data), 0)

\* save_results raises: a write to keybinds.json or to keybinds.csv does
SaveRaises(data, formats) ==
    \/ "json" \in formats /\ WriteRaises(JsonChunks(data))
    \/ "csv" \in formats /\ WriteRaises(CsvLines(data.results))

\* keybinds.json after save_results
JsonFile(data, formats) ==
    IF "json" \in formats THEN Output(WrittenText(JsonChunks(data))) ELSE NoOutput

\* keybinds.csv after save_results: it is not reached when the json write
\* raised
CsvFile(data, formats) ==
    IF "csv" \in formats /\ ~("json" \in formats /\ WriteRaises(JsonChunks(data)))
    THEN Output(WrittenText(CsvLines(data.results)))
    ELSE NoOutput

\* a call of an entry point: main with its -o, -f and -d arguments, or
\* save_results with its output_dir and formats arguments; existed tells
\* whether output_dir was a directory when the call was made
Call(entry, output_dir, formats, dry, existed) ==
    [entry |-> entry, output_dir |-> output_dir, formats |-> formats,
     dry_run |-> dry, existed |-> existed]

NoCall == Call("none", <<>>, {}, FALSE, FALSE)

\* the names of the output files
KeybindsJson == <<"k", "e", "y", "b", "i", "n", "d", "s", ".", "j", "s", "o", "n">>
KeybindsCsv == <<"k", "e", "y", "b", "i", "n", "d", "s", ".", "c", "s", "v">>

\* output_dir.mkdir(exist_ok=True), without parents=True: the exception it
\* raises, or "none"
MkdirError(dirs, files, output_dir) ==
    IF output_dir \in dirs THEN "none"
    ELSE IF output_dir \in files THEN "FileExistsError"
    ELSE IF Len(output_dir) > 1 /\ Parent(output_dir) \notin dirs
    THEN "FileNotFoundError"
    ELSE "none"

\* the files save_results opens for writing in output_dir
OpenedFiles(output_dir, data, formats) ==
    (IF JsonFile(data, formats).exists THEN {Child(output_dir, KeybindsJson)} ELSE {})
    \cup (IF CsvFile(data, formats).exists THEN {Child(output_dir, KeybindsCsv)} ELSE {})

\* what a call save_results(scan_data, output_dir, formats) leaves: the
\* directories and files that exist, and the exception raised or "none"
SaveResults(dirs, files, output_dir, data, formats) ==
    IF MkdirError(dirs, files, output_dir) # "none"
    THEN [dirs |-> dirs, files |-> files,
          error |-> MkdirError(dirs, files, output_dir)]
    ELSE [dirs |-> dirs \cup {output_dir},
          files |-> files \cup OpenedFiles(output_dir, data, formats),
          error |-> IF SaveRaises(data, formats) THEN "UnicodeEncodeError" ELSE "none"]

\* parser.add_argument('-f', '--formats', nargs='+', choices=['json', 'csv'],
\* default=['json']): the formats main works with, the empty set standing
\* for a command line without -f
ParsedFormats(formats) == IF formats = {} THEN {"json"} ELSE formats

\* parser.parse_args() ends the process: a value of -f is no choice
ParseArgsExits(formats) == \E f \in formats : f \notin {"json", "csv"}

-----------------------------------------------------------------------------
(* The scan: files are written under r, then scan_directories is called    *)
(* once on a scanner built with the defaults.                              *)

\* most files written before the scan
MaxFiles == 2

Body1 == << <<"I", "n", "p", "u", "t", "P", "r", "e", "s", "s", "e", "d", "(", "\"", "x", "\"", ")">> >>
Body2 == << <<"I", "n", "p", "u", "t", "P", "r", "e", "s", "s", "e", "d", "(", "\"", "x", "\"", ")">>,
       <<"i", "f", " ", "I", "n", "p", "u", "t", "D", "o", "w", "n", "(", "\"", "x", "\"", ")", " ", "t", "h", "e", "n", " ", "I", "n", "p", "u", "t", "V", "a", "l", "u", "e", "(", "\"", "y", "\"", ")", " ", "e", "n", "d">> >>
Info1 == << <<"n", "a", "m", "e", " ", "=", " ", "M">> >>
Info2 == << <<"n", "a", "m", "e", " ", "=", " ", "M">>,
       <<"I", "n", "p", "u", "t", "P", "r", "e", "s", "s", "e", "d", "(", "\"", "x", "\"", ")">> >>

\* the files that may be written under each name
FileChoices(name) ==
    IF name = InfoTxt THEN { TextFile(Info1), TextFile(Info2) }
    ELSE IF name = MainLua THEN { TextFile(Body1), TextFile(Body2) }
    ELSE { TextFile(Body1) }

\* the lists of directories scan_directories may be called with
RootLists ==
    { <<DirR>>, <<DirRA, DirRB>>, <<DirR, DirRA>>, <<DirZ, DirRB>>, <<DirR, DirR>> }

\* the manifests scan_directories may be called with
Manifests ==
    { Manifest("none", <<>>),
      Manifest("missing", <<>>),
      Manifest("malformed", <<>>),
      Manifest("doc",
          << Element(ModTag, Attr(<<"l", "o", "c", "a", "l", "-", "A">>), Attr(<<"f", "a", "l", "s", "e">>)),
             Element(ModTag, Attr(<<"s", "t", "e", "a", "m", "-", "B">>), Attr(<<"T", "r", "u", "e">>)) >>) }

\* parse_mod_status_xml is not driven on its own
XmlIdle ==
    /\ xml_children = <<>>
    /\ xml_pc = "idle"
    /\ xml_status = <<>>

\* extract_mod_name is not driven on its own
ModNameIdle ==
    /\ mn_pc = "idle"
    /\ mn_dir = <<>>
    /\ mn_order = "asc"
    /\ mn_name = <<>>
    /\ mn_log = <<>>

\* save_results is not called
SaveIdle ==
    /\ sv_pc = "idle"
    /\ sv_mods = <<>>
    /\ sv_formats = {}
    /\ sv_json = NoOutput
    /\ sv_csv = NoOutput
    /\ sv_loaded = ParseError
    /\ sv_rows = <<>>

\* no entry point is called on an output directory
OutIdle ==
    /\ out_pc = "idle"
    /\ out_dirs = {}
    /\ out_files = {}
    /\ out_call = NoCall
    /\ out_scanned = FALSE
    /\ out_error = "none"

\* the GUI is not open
GuiIdle ==
    /\ gui_directories = <<>>
    /\ json_format = FALSE
    /\ csv_format = FALSE
    /\ custom_patterns = "empty"
    /\ run_button = "normal"
    /\ progress = FALSE
    /\ scan_thread = 0
    /\ thread_pc = <<>>
    /\ after_queue = <<>>
    /\ gui_scan_data = 0
    /\ view_button = "disabled"
    /\ gui_shown = "nothing"
    /\ gui_completed = {}

\* the size gate of scan_file is not driven on its own
GateIdle ==
    /\ gt_pc = "idle"
    /\ gt_max = 0
    /\ gt_file = NoFile
    /\ gt_results = <<>>
    /\ gt_opens = <<>>
    /\ gt_log = <<>>

\* should_scan_file is not driven on its own
NameIdle ==
    /\ fn_pc = "idle"
    /\ fn_name = <<>>
    /\ fn_scan = FALSE

\* scan_file is not driven on its own
LineIdle ==
    /\ ln_pc = "idle"
    /\ ln_args = [patterns |-> <<>>, case_insensitive |-> FALSE, whole_word |-> FALSE]
    /\ ln_tokens = <<>>
    /\ ln_results = <<>>
    /\ ln_log = <<>>

\* no scan has been called
ScanIdle ==
    /\ fs = EmptyTree
    /\ scan_pc = "setup"
    /\ directories = <<>>
    /\ mod_status_xml = Manifest("none", <<>>)
    /\ dry_run = FALSE
    /\ listing = "asc"
    /\ mod_dirs = <<>>
    /\ mod_status = <<>>
    /\ scan_data = NoScanData
    /\ scan_log = <<>>

\* aggregate_results is not driven on its own
AggIdle ==
    /\ phase = "idle"
    /\ results = <<>>
    /\ aggregated = <<>>
    /\ results2 = <<>>
    /\ aggregated2 = <<>>
    /\ results_after = <<>>

Init == AggIdle /\ ScanIdle /\ XmlIdle /\ LineIdle /\ NameIdle /\ ModNameIdle /\ SaveIdle /\ OutIdle /\ GateIdle /\ GuiIdle

\* a file is written before the scan
WriteFile ==
    /\ scan_pc = "setup"
    /\ Cardinality({ p \in FilePaths : fs[p].exists }) < MaxFiles
    /\ \E p \in TreePaths :
          /\ ~fs[p].exists
          /\ \E file \in FileChoices(Name(p)) : fs' = [fs EXCEPT ![p] = file]
    /\ UNCHANGED <<scan_pc, directories, mod_status_xml, dry_run, listing,
                   mod_dirs, mod_status, scan_data, scan_log, aggVars, xmlVars, lnVars, fnVars, mnVars, svVars, outVars, gtVars, guiVars>>

\* the state left by a call of scan_directories with this outcome
Scanned(out) ==
    /\ mod_dirs' = out.mod_dirs
    /\ mod_status' = out.mod_status
    /\ scan_data' = out.data
    /\ scan_pc' = out.pc

\* scan_directories(dirs, dry, xml) on a scanner built with the defaults,
\* the directories being listed in this order
ScanDirectories(dirs, xml, dry, order) ==
    /\ directories' = dirs
    /\ mod_status_xml' = xml
    /\ dry_run' = dry
    /\ listing' = order
    /\ Scanned(ScanOutcome(DefaultScanner, fs, dirs, xml, dry, order))
    /\ scan_log' = ScanLog(DefaultScanner, fs, dirs, xml, dry, order)

\* scan_directories(directories, dry_run, mod_status_xml)
scan_directories ==
    /\ scan_pc = "setup"
    /\ \E dirs \in RootLists, xml \in Manifests, dry \in BOOLEAN, order \in ListingOrders :
          ScanDirectories(dirs, xml, dry, order)
    /\ UNCHANGED <<fs, aggVars, xmlVars, lnVars, fnVars, mnVars, svVars, outVars, gtVars, guiVars>>

Next == WriteFile \/ scan_directories

Spec == Init /\ [][Next]_vars

-----------------------------------------------------------------------------
(* Aggregation on its own: aggregate_results applied to bounded lists of   *)
(* raw matches, then applied again to the records it returned.             *)

\* longest list of raw matches passed to aggregate_results
MaxResults == 4

\* The raw matches the lists are drawn from: two mods, two keys, two files
\* (whose sorted order differs from the order of the list below), two line
\* numbers (whose numeric order differs from the order of their decimal
\* strings) and four contexts.
RawMatches ==
    { RawMatch(<<"b">>,      10, <<"x">>, <<"p">>, <<"P","x">>, <<"A">>, TRUE),
      RawMatch(<<"a","b">>,   9, <<"x">>, <<"q">>, <<"D","x">>, <<"A">>, TRUE),
      RawMatch(<<"b">>,       9, <<"x">>, <<"r">>, <<"P","x">>, <<"A">>, TRUE),
      RawMatch(<<"a","b">>,  10, <<"x">>, <<"s">>, <<"P","x">>, <<"A">>, TRUE),
      RawMatch(<<"b">>,      10, <<"x">>, <<"q">>, <<"P","x">>, <<"A">>, TRUE),
      RawMatch(<<"b">>,      10, <<"x">>, <<"p">>, <<"P","x">>, <<"B">>, FALSE),
      RawMatch(<<"a","b">>,   9, <<"y">>, <<"q">>, <<"P","y">>, <<"A">>, TRUE),
      RawMatch(<<"b">>,       9, <<"y">>, <<"r">>, <<"D","y">>, <<"B">>, FALSE) }

\* the records of an aggregated dict, key after key, as a list
RECURSIVE Flatten(_)
Flatten(d) == IF d = <<>> THEN <<>> ELSE Head(d).v \o Flatten(Tail(d))

AggInit ==
    /\ phase = "input"
    /\ results = <<>>
    /\ aggregated = <<>>
    /\ results2 = <<>>
    /\ aggregated2 = <<>>
    /\ results_after = <<>>
    /\ ScanIdle
    /\ XmlIdle
    /\ LineIdle
    /\ NameIdle
    /\ ModNameIdle
    /\ SaveIdle
    /\ OutIdle
    /\ GateIdle
    /\ GuiIdle

\* the caller appends one more raw match to the list it will pass
AddResult ==
    /\ phase = "input"
    /\ Len(results) < MaxResults
    /\ \E r \in RawMatches : results' = Append(results, r)
    /\ UNCHANGED <<phase, aggregated, results2, aggregated2, results_after, scanVars, xmlVars, lnVars, fnVars, mnVars, svVars, outVars, gtVars, guiVars>>

\* aggregated = aggregate_results(results)
aggregate_results ==
    /\ phase = "input"
    /\ phase' = IF AggregateRaises(results) THEN "raised" ELSE "aggregated"
    /\ aggregated' = IF AggregateRaises(results) THEN <<>> ELSE AggregateResults(results)
    /\ results_after' = IF AggregateRaises(results) THEN results ELSE ResultsAfter(results)
    /\ UNCHANGED <<results, results2, aggregated2, scanVars, xmlVars, lnVars, fnVars, mnVars, svVars, outVars, gtVars, guiVars>>

\* aggregate_results called again on the records it returned
reaggregate ==
    /\ phase = "aggregated"
    /\ results2' = Flatten(aggregated)
    /\ phase' = IF AggregateRaises(results2') THEN "raised" ELSE "reaggregated"
    /\ aggregated2' = IF AggregateRaises(results2') THEN <<>> ELSE AggregateResults(results2')
    /\ UNCHANGED <<results, aggregated, results_after, scanVars, xmlVars, lnVars, fnVars, mnVars, svVars, outVars, gtVars, guiVars>>

AggNext == AddResult \/ aggregate_results \/ reaggregate

SpecAgg == AggInit /\ [][AggNext]_vars

-----------------------------------------------------------------------------
(* The manifest parser on its own: parse_mod_status_xml applied to          *)
(* well-formed documents with bounded lists of children under the root.    *)

\* most children under the root of a manifest
MaxMods == 3

IdLocalA  == <<"l", "o", "c", "a", "l", "-", "A">>
IdSteamA  == <<"s", "t", "e", "a", "m", "-", "A">>
IdSteamB2 == <<"s", "t", "e", "a", "m", "-", "B", "-", "2">>
IdDashA   == <<"-", "A">>
IdA       == <<"A">>

\* The children the documents are made of: ids with one '-', with two, with
\* a leading '-', with none, empty and absent; active in several cases,
\* other than true, and absent; and an element that is not a mod.
Elements ==
    { Element(ModTag, Attr(IdLocalA), Attr(<<"T", "r", "u", "e">>)),
      Element(ModTag, Attr(IdLocalA), Attr(<<"f", "a", "l", "s", "e">>)),
      Element(ModTag, Attr(IdSteamA), Attr(<<"f", "a", "l", "s", "e">>)),
      Element(ModTag, Attr(IdSteamA), NoAttr),
      Element(ModTag, Attr(IdSteamA), Attr(<<"t", "r", "u", "e">>)),
      Element(ModTag, Attr(IdSteamB2), Attr(<<"T", "R", "U", "E">>)),
      Element(ModTag, Attr(IdDashA), Attr(<<"y", "e", "s">>)),
      Element(ModTag, Attr(IdA), Attr(<<"t", "r", "u", "e">>)),
      Element(ModTag, Attr(<<>>), Attr(<<"t", "r", "u", "e">>)),
      Element(ModTag, NoAttr, Attr(<<"t", "r", "u", "e">>)),
      Element(<<"m", "a", "p">>, Attr(<<"l", "o", "c", "a", "l", "-", "C">>), Attr(<<"t", "r", "u", "e">>)) }

XmlInit ==
    /\ xml_children = <<>>
    /\ xml_pc = "build"
    /\ xml_status = <<>>
    /\ AggIdle
    /\ ScanIdle
    /\ LineIdle
    /\ NameIdle
    /\ ModNameIdle
    /\ SaveIdle
    /\ OutIdle
    /\ GateIdle
    /\ GuiIdle

\* one more child is written under the root of the manifest
AddElement ==
    /\ xml_pc = "build"
    /\ Len(xml_children) < MaxMods
    /\ \E elem \in Elements : xml_children' = Append(xml_children, elem)
    /\ UNCHANGED <<xml_pc, xml_status, aggVars, scanVars, lnVars, fnVars, mnVars, svVars, outVars, gtVars, guiVars>>

\* mod_status = parse_mod_status_xml(xml_path)
parse_mod_status_xml ==
    /\ xml_pc = "build"
    /\ xml_status' = ParseModStatusXml(Manifest("doc", xml_children))
    /\ xml_pc' = "parsed"
    /\ UNCHANGED <<xml_children, aggVars, scanVars, lnVars, fnVars, mnVars, svVars, outVars, gtVars, guiVars>>

XmlNext == AddElement \/ parse_mod_status_xml

SpecXml == XmlInit /\ [][XmlNext]_vars

-----------------------------------------------------------------------------
(* The extraction on its own: a scanner is constructed, and scan_file is    *)
(* called on a file with one line, put together from calls and other text. *)

\* most pieces in the line
MaxTokens == 3

\* the call Form("key") as it stands in a script
CallText(form, key) == form \o <<"(", "\"">> \o key \o <<"\"", ")">>

CallToken(form, key) ==
    [text |-> CallText(form, key), call |-> TRUE, form |-> form, key |-> key]

TextToken(text) == [text |-> text, call |-> FALSE, form |-> <<>>, key |-> <<>>]

\* The pieces: a call of each default form, a call whose key holds an
\* apostrophe, and text that is no call (a word and a space before a call, a
\* space and a word after it, a letter next to it).
Tokens ==
    { CallToken(<<"I", "n", "p", "u", "t", "P", "r", "e", "s", "s", "e", "d">>, <<"x">>),
      CallToken(<<"I", "n", "p", "u", "t", "D", "o", "w", "n">>, <<"x">>),
      CallToken(<<"I", "n", "p", "u", "t", "R", "e", "l", "e", "a", "s", "e", "d">>, <<"K", "e", "y", "_", "X">>),
      CallToken(<<"I", "n", "p", "u", "t", "V", "a", "l", "u", "e">>, <<"y">>),
      CallToken(<<"I", "n", "p", "u", "t", "P", "r", "e", "s", "s", "e", "d">>, <<"a", "'", "b">>),
      TextToken(<<"i", "f", " ">>),
      TextToken(<<" ", "t", "h", "e", "n">>),
      TextToken(<<"a">>) }

\* the arguments KeybindScanner is constructed with: the defaults, each
\* option alone, a list with a pattern without a capture group, and a list
\* with a string that is no regular expression
ScannerArgs ==
    { [patterns |-> <<>>, case_insensitive |-> FALSE, whole_word |-> FALSE],
      [patterns |-> <<>>, case_insensitive |-> TRUE,  whole_word |-> FALSE],
      [patterns |-> <<>>, case_insensitive |-> FALSE, whole_word |-> TRUE],
      [patterns |-> << DEFAULT_PATTERNS[1],
                       Pattern(DEFAULT_PATTERNS[2].form, FALSE, TRUE) >>,
       case_insensitive |-> FALSE, whole_word |-> FALSE],
      [patterns |-> << DEFAULT_PATTERNS[1],
                       Pattern(DEFAULT_PATTERNS[2].form, TRUE, FALSE) >>,
       case_insensitive |-> FALSE, whole_word |-> FALSE] }

\* the line of the file
LineOf(tokens) == Concat([i \in DOMAIN tokens |-> tokens[i].text])

\* the file scan_file is called on
LineFilePath == Child(DirRA, MainLua)

LineFile == TextFile(<< LineOf(ln_tokens) >>)

\* the scanner the constructor left
LineScanner ==
    KeybindScanner(ln_args.patterns, ln_args.case_insensitive, ln_args.whole_word,
                   DefaultScanner.max_file_size)

LineInit ==
    /\ ln_pc = "new"
    /\ ln_args = [patterns |-> <<>>, case_insensitive |-> FALSE, whole_word |-> FALSE]
    /\ ln_tokens = <<>>
    /\ ln_results = <<>>
    /\ ln_log = <<>>
    /\ AggIdle
    /\ ScanIdle
    /\ XmlIdle
    /\ NameIdle
    /\ ModNameIdle
    /\ SaveIdle
    /\ OutIdle
    /\ GateIdle
    /\ GuiIdle

\* scanner = KeybindScanner(patterns=..., case_insensitive=..., whole_word=...)
KeybindScanner_init ==
    /\ ln_pc = "new"
    /\ \E args \in ScannerArgs :
          /\ ln_args' = args
          /\ ln_pc' = IF InitRaises(args.patterns) THEN "rejected" ELSE "constructed"
    /\ UNCHANGED <<ln_tokens, ln_results, ln_log, aggVars, scanVars, xmlVars, fnVars, mnVars, svVars, outVars, gtVars, guiVars>>

\* one more piece is written to the line
AppendToken ==
    /\ ln_pc = "constructed"
    /\ Len(ln_tokens) < MaxTokens
    /\ \E token \in Tokens : ln_tokens' = Append(ln_tokens, token)
    /\ UNCHANGED <<ln_pc, ln_args, ln_results, ln_log, aggVars, scanVars, xmlVars, fnVars, mnVars, svVars, outVars, gtVars, guiVars>>

\* results = scanner.scan_file(file_path)
scan_file ==
    /\ ln_pc = "constructed"
    /\ ln_results' = ScanFile(LineScanner, LineFilePath, LineFile)
    /\ ln_log' = ScanFileLog(LineScanner, LineFilePath, LineFile)
    /\ ln_pc' = "scanned"
    /\ UNCHANGED <<ln_args, ln_tokens, aggVars, scanVars, xmlVars, fnVars, mnVars, svVars, outVars, gtVars, guiVars>>

LineNext == KeybindScanner_init \/ AppendToken \/ scan_file

SpecLine == LineInit /\ [][LineNext]_vars

-----------------------------------------------------------------------------
(* The file classifier on its own: should_scan_file applied to file names   *)
(* put together from bounded lists of pieces.                              *)

\* most pieces in a file name
MaxPieces == 3

\* the pieces of the names: the stems and extensions of FILE_PATTERNS in
\* several cases, a stem of another script, a letter and a newline
NamePieces ==
    { <<"m", "a", "i", "n">>,
      <<"M", "a", "i", "n">>,
      <<"o", "p", "t", "i", "o", "n", "s">>,
      <<"i", "n", "f", "o">>,
      <<"R", "E", "A", "D", "M", "E">>,
      <<"r", "e", "a", "d", "m", "e">>,
      <<".", "l", "u", "a">>,
      <<".", "T", "X", "T">>,
      <<".", "t", "x", "t">>,
      <<"x">>,
      <<"\n">>,
      <<"s", "c", "r", "i", "p", "t">> }

NameInit ==
    /\ fn_pc = "build"
    /\ fn_name = <<>>
    /\ fn_scan = FALSE
    /\ AggIdle
    /\ ScanIdle
    /\ XmlIdle
    /\ LineIdle
    /\ ModNameIdle
    /\ SaveIdle
    /\ OutIdle
    /\ GateIdle
    /\ GuiIdle

\* one more piece is appended to the name of the file
AppendPiece ==
    /\ fn_pc = "build"
    /\ Len(fn_name) < MaxPieces
    /\ \E piece \in NamePieces : fn_name' = Append(fn_name, piece)
    /\ UNCHANGED <<fn_pc, fn_scan, aggVars, scanVars, xmlVars, lnVars, mnVars, svVars, outVars, gtVars, guiVars>>

\* file_path.name of the file
NameOf(pieces) == Concat(pieces)

\* should_scan_file(dir / name), for a non-empty name
should_scan_file ==
    /\ fn_pc = "build"
    /\ fn_name # <<>>
    /\ fn_scan' = ShouldScanFile(Child(DirRA, NameOf(fn_name)))
    /\ fn_pc' = "classified"
    /\ UNCHANGED <<fn_name, aggVars, scanVars, xmlVars, lnVars, mnVars, svVars, outVars, gtVars, guiVars>>

NameNext == AppendPiece \/ should_scan_file

SpecName == NameInit /\ [][NameNext]_vars

-----------------------------------------------------------------------------
(* The display name on its own: metadata and readme files are written into  *)
(* r/A, the directory may lose the permission to list it, and              *)
(* extract_mod_name is called once.                                        *)

InfoNamed    == << <<"n", "a", "m", "e", ":", " ", "T", "e", "s", "t", " ", "M", "o", "d">>,
       <<"v", "e", "r", "s", "i", "o", "n", ":", " ", "1", ".", "0">> >>
InfoTitled   == << <<"v", "e", "r", "s", "i", "o", "n", " ", "=", " ", "2">>,
       <<" ", " ", "T", "i", "t", "l", "e", " ", "=", " ", " ", "B", "i", "g", " ", "O", "n", "e", " ", " ">>,
       <<"n", "a", "m", "e", " ", "=", " ", "Z">> >>
InfoNameless == << <<"v", "e", "r", "s", "i", "o", "n", ":", " ", "1", ".", "0">>,
       <<"n", "a", "m", "e", "s", " ", "=", " ", "Q">> >>
InfoBlank    == << <<"m", "o", "d", "_", "n", "a", "m", "e", " ", "=", " ">> >>

ReadmeHeading == << <<>>,
       <<"#", " ", "M", "y", " ", "M", "o", "d">>,
       <<"t", "e", "x", "t">> >>
ReadmePlain   == << <<" ", " ">>,
       <<" ", "F", "i", "r", "s", "t", " ", "l", "i", "n", "e", " ">>,
       <<"#", " ", "T", "i", "t", "l", "e">> >>
ReadmeEmpty   == << <<>>,
       <<" ", " ">> >>

\* the paths extract_mod_name may read in r/A
ModNamePaths == { Child(DirRA, InfoTxt), Child(DirRA, ReadmeMd), Child(DirRA, ReadmeTxt) }

\* the files that may be written under each of these names
ModFileChoices(name) ==
    IF name = InfoTxt
    THEN { TextFile(InfoNamed), TextFile(InfoTitled), TextFile(InfoNameless),
           TextFile(InfoBlank), Unreadable(InfoNamed), Undecodable(InfoNamed) }
    ELSE { TextFile(ReadmeHeading), TextFile(ReadmePlain), TextFile(ReadmeEmpty),
           Unreadable(ReadmeHeading), Undecodable(ReadmePlain) }

\* the variables of scan_directories other than the file system
scanRest == <<scan_pc, directories, mod_status_xml, dry_run, listing,
              mod_dirs, mod_status, scan_data, scan_log>>

ModNameInit ==
    /\ mn_pc = "setup"
    /\ mn_dir = <<>>
    /\ mn_order = "asc"
    /\ mn_name = <<>>
    /\ mn_log = <<>>
    /\ AggIdle
    /\ ScanIdle
    /\ XmlIdle
    /\ LineIdle
    /\ NameIdle
    /\ SaveIdle
    /\ OutIdle
    /\ GateIdle
    /\ GuiIdle

\* a metadata or readme file is written into r/A
WriteModFile ==
    /\ mn_pc = "setup"
    /\ Cardinality({ p \in FilePaths : fs[p].exists }) < MaxFiles
    /\ \E p \in ModNamePaths :
          /\ ~fs[p].exists
          /\ \E file \in ModFileChoices(Name(p)) : fs' = [fs EXCEPT ![p] = file]
    /\ UNCHANGED <<mnVars, scanRest, aggVars, xmlVars, lnVars, fnVars, svVars, outVars, gtVars, guiVars>>

\* r/A loses the permission to list it (chmod a-r)
DenyListing ==
    /\ mn_pc = "setup"
    /\ fs[DirRA].listable
    /\ fs' = [fs EXCEPT ![DirRA] = Directory(FALSE)]
    /\ UNCHANGED <<mnVars, scanRest, aggVars, xmlVars, lnVars, fnVars, svVars, outVars, gtVars, guiVars>>

\* name = scanner.extract_mod_name(dir_path), for r/A or a directory that
\* does not exist
extract_mod_name ==
    /\ mn_pc = "setup"
    /\ \E dir_path \in {DirRA, DirZ}, order \in ListingOrders :
          /\ mn_dir' = dir_path
          /\ mn_order' = order
          /\ IF ExtractModNameRaises(fs, dir_path)
             THEN /\ mn_pc' = "raised"
                  /\ mn_name' = <<>>
                  /\ mn_log' = <<>>
             ELSE /\ mn_pc' = "returned"
                  /\ mn_name' = ExtractModName(fs, dir_path, order)
                  /\ mn_log' = ExtractModNameLog(fs, dir_path, order)
    /\ UNCHANGED <<fs, scanRest, aggVars, xmlVars, lnVars, fnVars, svVars, outVars, gtVars, guiVars>>

ModNameNext == WriteModFile \/ DenyListing \/ extract_mod_name

SpecModName == ModNameInit /\ [][ModNameNext]_vars

-----------------------------------------------------------------------------
(* The scan of a tree with failures: files are written under r, some of    *)
(* them without read permission or with bytes that do not decode,          *)
(* directories lose the permission to list them, then scan_directories is  *)
(* called once on a scanner built with the defaults.                       *)

\* most directories that lose the permission to list them
MaxDenied == 1

\* the paths the files are written at
FaultPaths ==
    { Child(DirR, MainLua), Child(DirRA, MainLua), Child(DirRA, InfoTxt),
      Child(DirRB, MainLua), Child(DirRAS, MainLua) }

\* the files that may be written under each name: one text, that text
\* without read permission, and a file of that size that does not decode
FaultChoices(name) ==
    LET lines == IF name = InfoTxt THEN Info2 ELSE Body1
    IN  { TextFile(lines), Unreadable(lines), Undecodable(lines) }

\* the lists of directories scan_directories is called with
FaultRootLists == { <<DirR>>, <<DirRA, DirRB>>, <<DirZ, DirRB>> }

\* a file is written before the scan
WriteFaultyFile ==
    /\ scan_pc = "setup"
    /\ Cardinality({ p \in FilePaths : fs[p].exists }) < MaxFiles
    /\ \E p \in FaultPaths :
          /\ ~fs[p].exists
          /\ \E file \in FaultChoices(Name(p)) : fs' = [fs EXCEPT ![p] = file]
    /\ UNCHANGED <<scanRest, aggVars, xmlVars, lnVars, fnVars, mnVars, svVars, outVars, gtVars, guiVars>>

\* a directory loses the permission to list it (chmod a-r) before the scan
DenyListingOf ==
    /\ scan_pc = "setup"
    /\ Cardinality({ d \in Dirs : ~fs[d].listable }) < MaxDenied
    /\ \E d \in Dirs :
          /\ fs[d].listable
          /\ fs' = [fs EXCEPT ![d] = Directory(FALSE)]
    /\ UNCHANGED <<scanRest, aggVars, xmlVars, lnVars, fnVars, mnVars, svVars, outVars, gtVars, guiVars>>

\* scan_directories(directories) on that tree
scan_directories_with_failures ==
    /\ scan_pc = "setup"
    /\ \E dirs \in FaultRootLists, order \in ListingOrders :
          ScanDirectories(dirs, Manifest("none", <<>>), FALSE, order)
    /\ UNCHANGED <<fs, aggVars, xmlVars, lnVars, fnVars, mnVars, svVars, outVars, gtVars, guiVars>>

FaultNext == WriteFaultyFile \/ DenyListingOf \/ scan_directories_with_failures

SpecFaults == Init /\ [][FaultNext]_vars

-----------------------------------------------------------------------------
(* The outputs: the raw matches of some mods make a scan_data, save_results *)
(* writes it, and the files it left are read back.                         *)

\* most mods whose raw matches are saved
MaxSaved == 2

\* a mod directory with the one line of its main.lua, the display name
\* extract_mod_name gave it and its status
SavedMod(dir_path, name, enabled, line) ==
    [dir_path |-> dir_path, name |-> name, enabled |-> enabled, line |-> line]

\* The mods: one with a plain name, one whose name holds a backslash and a
\* quote and whose line calls the same key twice, one whose directory name
\* holds a byte that is not valid UTF-8 (its display name is the basename),
\* and one with the display name of the first and a line with a tab and a
\* backslash.
SavedMods ==
    { SavedMod(DirRA, <<"A">>, TRUE, <<"I", "n", "p", "u", "t", "P", "r", "e", "s", "s", "e", "d", "(", "\"", "x", "\"", ")">>),
      SavedMod(DirRB, <<"q", "\\", "\"">>, FALSE, <<"I", "n", "p", "u", "t", "D", "o", "w", "n", "(", "\"", "x", "\"", ")", " ", "I", "n", "p", "u", "t", "P", "r", "e", "s", "s", "e", "d", "(", "\"", "x", "\"", ")">>),
      SavedMod(Child(DirR, <<Surrogate>>), <<Surrogate>>, TRUE, <<"I", "n", "p", "u", "t", "P", "r", "e", "s", "s", "e", "d", "(", "\"", "y", "\"", ")">>),
      SavedMod(Child(DirR, <<"C">>), <<"A">>, TRUE, <<"I", "n", "p", "u", "t", "V", "a", "l", "u", "e", "(", "\"", "x", "\"", ")", "\t", "\\">>) }

\* the raw matches of a mod, as scan_directories adds them to all_results
SavedResults(mod) ==
    WithMod(ScanFile(DefaultScanner, Child(mod.dir_path, MainLua), TextFile(<<mod.line>>)),
            mod.name, mod.enabled)

\* mod_info after the loop over these mods
RECURSIVE SavedModInfo(_, _)
SavedModInfo(mods, n) ==
    IF n = 0 THEN <<>>
    ELSE DictSet(SavedModInfo(mods, n - 1), PathStr(mods[n].dir_path),
                 [name |-> mods[n].name, enabled |-> mods[n].enabled])

\* the scan_data of a scan of these mods
SavedData(mods) ==
    ScanData(Concat([i \in DOMAIN mods |-> SavedResults(mods[i])]),
             SavedModInfo(mods, Len(mods)))

\* the formats save_results is called with
FormatLists == { {"json"}, {"csv"}, {"json", "csv"} }

SaveInit ==
    /\ sv_pc = "input"
    /\ sv_mods = <<>>
    /\ sv_formats = {}
    /\ sv_json = NoOutput
    /\ sv_csv = NoOutput
    /\ sv_loaded = ParseError
    /\ sv_rows = <<>>
    /\ AggIdle
    /\ ScanIdle
    /\ XmlIdle
    /\ LineIdle
    /\ NameIdle
    /\ ModNameIdle
    /\ OutIdle
    /\ GateIdle
    /\ GuiIdle

\* one more mod was scanned
AddMod ==
    /\ sv_pc = "input"
    /\ Len(sv_mods) < MaxSaved
    /\ \E mod \in SavedMods :
          /\ mod \notin Range(sv_mods)
          /\ sv_mods' = Append(sv_mods, mod)
    /\ UNCHANGED <<sv_pc, sv_formats, sv_json, sv_csv, sv_loaded, sv_rows,
                   aggVars, scanVars, xmlVars, lnVars, fnVars, mnVars, outVars, gtVars, guiVars>>

\* the state a call save_results(data, output_dir, formats) leaves
Saved(data, formats) ==
    /\ sv_formats' = formats
    /\ sv_json' = JsonFile(data, formats)
    /\ sv_csv' = CsvFile(data, formats)
    /\ sv_pc' = IF SaveRaises(data, formats) THEN "raised" ELSE "saved"

\* scanner.save_results(scan_data, output_dir, formats)
save_results ==
    /\ sv_pc = "input"
    /\ \E formats \in FormatLists : Saved(SavedData(sv_mods), formats)
    /\ UNCHANGED <<sv_mods, sv_loaded, sv_rows,
                   aggVars, scanVars, xmlVars, lnVars, fnVars, mnVars, outVars, gtVars, guiVars>>

\* the files save_results left are read: json.load on keybinds.json and
\* csv.reader on keybinds.csv
read_outputs ==
    /\ sv_pc \in {"saved", "raised"}
    /\ sv_loaded' = IF sv_json.exists THEN JsonLoad(sv_json.text) ELSE ParseError
    /\ sv_rows' = IF sv_csv.exists THEN CsvRead(sv_csv.text) ELSE <<>>
    /\ sv_pc' = IF sv_pc = "raised" THEN "read_after_raise" ELSE "read"
    /\ UNCHANGED <<sv_mods, sv_formats, sv_json, sv_csv,
                   aggVars, scanVars, xmlVars, lnVars, fnVars, mnVars, outVars, gtVars, guiVars>>

SaveNext == AddMod \/ save_results \/ read_outputs

SpecSave == SaveInit /\ [][SaveNext]_vars

-----------------------------------------------------------------------------
(* The output directory: directories are made below the working directory, *)
(* a file may stand where a directory is expected, then main or            *)
(* save_results is called once with an output path and formats.            *)

DirOut == << <<"o", "u", "t">> >>
DirP == << <<"p">> >>
DirPOut == << <<"p">>, <<"o", "u", "t">> >>

\* the paths that may be made before the call
OutPaths == { DirOut, DirP, DirPOut }

\* the output paths the entry points are called with
OutputDirs == { DirOut, DirPOut }

\* the formats asked for; the empty set is passed to main only
FormatArgs == { {}, {"json"}, {"csv"}, {"json", "csv"}, {"xml"}, {"json", "xml"} }

\* the scan_data of the call: the scan of the mod r/A
OutData == SavedData(<< CHOOSE mod \in SavedMods : mod.dir_path = DirRA >>)

OutInit ==
    /\ out_pc = "setup"
    /\ out_dirs = {}
    /\ out_files = {}
    /\ out_call = NoCall
    /\ out_scanned = FALSE
    /\ out_error = "none"
    /\ AggIdle
    /\ ScanIdle
    /\ XmlIdle
    /\ LineIdle
    /\ NameIdle
    /\ ModNameIdle
    /\ SaveIdle
    /\ GateIdle
    /\ GuiIdle

\* os.mkdir(p) before the call
MakeDir ==
    /\ out_pc = "setup"
    /\ \E p \in OutPaths :
          /\ p \notin out_dirs \cup out_files
          /\ Len(p) = 1 \/ Parent(p) \in out_dirs
          /\ out_dirs' = out_dirs \cup {p}
    /\ UNCHANGED <<out_pc, out_files, out_call, out_scanned, out_error,
                   aggVars, scanVars, xmlVars, lnVars, fnVars, mnVars, svVars, gtVars, guiVars>>

\* a regular file is written at an output path before the call
MakeFile ==
    /\ out_pc = "setup"
    /\ \E p \in OutputDirs :
          /\ p \notin out_dirs \cup out_files
          /\ Len(p) = 1 \/ Parent(p) \in out_dirs
          /\ out_files' = out_files \cup {p}
    /\ UNCHANGED <<out_pc, out_dirs, out_call, out_scanned, out_error,
                   aggVars, scanVars, xmlVars, lnVars, fnVars, mnVars, svVars, gtVars, guiVars>>

\* the state a call of save_results with this outcome leaves
SaveResultsCalled(saved) ==
    /\ out_dirs' = saved.dirs
    /\ out_files' = saved.files
    /\ out_error' = saved.error
    /\ out_pc' = IF saved.error = "none" THEN "returned" ELSE "raised"

\* scanner.save_results(scan_data, output_dir, formats), called by a program
\* that scanned before
save_results_to ==
    /\ out_pc = "setup"
    /\ \E output_dir \in OutputDirs, formats \in FormatArgs \ {{}} :
          /\ out_call' = Call("save_results", output_dir, formats, FALSE,
                              output_dir \in out_dirs)
          /\ SaveResultsCalled(SaveResults(out_dirs, out_files, output_dir, OutData, formats))
    /\ out_scanned' = TRUE
    /\ UNCHANGED <<aggVars, scanVars, xmlVars, lnVars, fnVars, mnVars, svVars, gtVars, guiVars>>

\* main() with -o output_dir, -f formats and, when dry, -d
main ==
    /\ out_pc = "setup"
    /\ \E output_dir \in OutputDirs, formats \in FormatArgs, dry \in BOOLEAN :
          /\ out_call' = Call("main", output_dir, formats, dry, output_dir \in out_dirs)
          /\ IF ParseArgsExits(formats)
             THEN /\ out_pc' = "exited"
                  /\ out_error' = "SystemExit"
                  /\ out_scanned' = FALSE
                  /\ UNCHANGED <<out_dirs, out_files, gtVars, guiVars>>
             ELSE /\ out_scanned' = TRUE
                  /\ IF dry
                     THEN /\ out_pc' = "returned"
                          /\ out_error' = "none"
                          /\ UNCHANGED <<out_dirs, out_files, gtVars, guiVars>>
                     ELSE SaveResultsCalled(SaveResults(out_dirs, out_files, output_dir,
                                                        OutData, ParsedFormats(formats)))
    /\ UNCHANGED <<aggVars, scanVars, xmlVars, lnVars, fnVars, mnVars, svVars, gtVars, guiVars>>

OutNext == MakeDir \/ MakeFile \/ save_results_to \/ main

SpecOut == OutInit /\ [][OutNext]_vars

-----------------------------------------------------------------------------
(* The size gate: a file is written line by line, with or without a NUL    *)
(* byte, a scanner is constructed with some max_file_size, and scan_file   *)
(* is called once.                                                         *)

\* most lines of the file
MaxGateLines == 2

\* the lines the file is made of: 17, 1 and 14 characters
GateLines ==
    { <<"I", "n", "p", "u", "t", "P", "r", "e", "s", "s", "e", "d", "(", "\"", "x", "\"", ")">>,
      <<"x">>,
      <<"I", "n", "p", "u", "t", "D", "o", "w", "n", "(", "\"", "y", "\"", ")">> }

\* the values of max_file_size: sizes of the files, the sizes next to them,
\* and the default
GateLimits == { 0, 1, 2, 17, 18, 19, 20, 33, 36, 37, 10 * 1024 * 1024 }

GateFilePath == Child(DirRA, MainLua)

GateScanner == KeybindScanner(<<>>, FALSE, FALSE, gt_max)

GateInit ==
    /\ gt_pc = "build"
    /\ gt_max = 0
    /\ gt_file = TextFile(<<>>)
    /\ gt_results = <<>>
    /\ gt_opens = <<>>
    /\ gt_log = <<>>
    /\ AggIdle
    /\ ScanIdle
    /\ XmlIdle
    /\ LineIdle
    /\ NameIdle
    /\ ModNameIdle
    /\ SaveIdle
    /\ OutIdle
    /\ GuiIdle

\* one more line is written to the file
AppendLine ==
    /\ gt_pc = "build"
    /\ Len(gt_file.lines) < MaxGateLines
    /\ \E line \in GateLines :
          gt_file' = [gt_file EXCEPT !.lines = Append(gt_file.lines, line),
                                     !.size = SizeOf(Append(gt_file.lines, line))]
    /\ UNCHANGED <<gt_pc, gt_max, gt_results, gt_opens, gt_log,
                   aggVars, scanVars, xmlVars, lnVars, fnVars, mnVars, svVars, outVars, guiVars>>

\* a character of the file is overwritten by a NUL byte
WriteNul ==
    /\ gt_pc = "build"
    /\ gt_file.size > 0
    /\ ~gt_file.nul
    /\ gt_file' = [gt_file EXCEPT !.nul = TRUE]
    /\ UNCHANGED <<gt_pc, gt_max, gt_results, gt_opens, gt_log,
                   aggVars, scanVars, xmlVars, lnVars, fnVars, mnVars, svVars, outVars, guiVars>>

\* KeybindScanner(max_file_size=limit).scan_file(file_path)
scan_file_with_limit ==
    /\ gt_pc = "build"
    /\ \E limit \in GateLimits : gt_max' = limit
    /\ gt_results' = ScanFile(GateScanner', GateFilePath, gt_file)
    /\ gt_opens' = ScanFileOpens(GateScanner', GateFilePath, gt_file)
    /\ gt_log' = ScanFileLog(GateScanner', GateFilePath, gt_file)
    /\ gt_pc' = "scanned"
    /\ UNCHANGED <<gt_file, aggVars, scanVars, xmlVars, lnVars, fnVars, mnVars, svVars, outVars, guiVars>>

GateNext == AppendLine \/ WriteNul \/ scan_file_with_limit

SpecGate == GateInit /\ [][GateNext]_vars

-----------------------------------------------------------------------------
(* The scan control of the GUI (src/gui.py): the user chooses directories, *)
(* formats and patterns and clicks Run Scan; each scan runs in a thread of  *)
(* its own, which hands callbacks to the main loop with root.after.  The   *)
(* window stays open.                                                      *)

\* most scan threads started
MaxScans == 2

Scans == 1..MaxScans

\* the directories the user may choose
GuiDirs == { DirRA, DirRB }

\* the scan threads started so far
Started == { t \in DOMAIN thread_pc : thread_pc[t] # "unstarted" }

\* root.after(0, callback): the callback of this scan joins the timers, which
\* the main loop runs in the order in which they were set
After(queue, callback, t) == Append(queue, [callback |-> callback, scan |-> t])

\* the main loop is about to run this callback
Due(callback) == after_queue # <<>> /\ Head(after_queue).callback = callback

\* __init__, create_widgets: the window as it opens, without a settings file
GuiInit ==
    /\ gui_directories = <<>>
    /\ json_format = TRUE
    /\ csv_format = FALSE
    /\ custom_patterns = "empty"
    /\ run_button = "normal"
    /\ progress = FALSE
    /\ scan_thread = 0
    /\ thread_pc = [t \in Scans |-> "unstarted"]
    /\ after_queue = <<>>
    /\ gui_scan_data = 0
    /\ view_button = "disabled"
    /\ gui_shown = "nothing"
    /\ gui_completed = {}
    /\ AggIdle
    /\ ScanIdle
    /\ XmlIdle
    /\ LineIdle
    /\ NameIdle
    /\ ModNameIdle
    /\ SaveIdle
    /\ OutIdle
    /\ GateIdle

\* add_directory: the directory chosen in the dialog is appended unless it
\* is in the list
add_directory ==
    /\ \E dir_path \in GuiDirs :
          /\ dir_path \notin Range(gui_directories)
          /\ gui_directories' = Append(gui_directories, dir_path)
    /\ UNCHANGED <<json_format, csv_format, custom_patterns, run_button, progress,
                   scan_thread, thread_pc, after_queue, gui_scan_data, view_button,
                   gui_shown, gui_completed,
                   aggVars, scanVars, xmlVars, lnVars, fnVars, mnVars, svVars, outVars, gtVars>>

\* remove_directory: the selected entry is deleted
remove_directory ==
    /\ \E index \in DOMAIN gui_directories :
          gui_directories' = SubSeq(gui_directories, 1, index - 1)
                             \o SubSeq(gui_directories, index + 1, Len(gui_directories))
    /\ UNCHANGED <<json_format, csv_format, custom_patterns, run_button, progress,
                   scan_thread, thread_pc, after_queue, gui_scan_data, view_button,
                   gui_shown, gui_completed,
                   aggVars, scanVars, xmlVars, lnVars, fnVars, mnVars, svVars, outVars, gtVars>>

\* the user ticks or clears a format checkbox, or edits the custom patterns
edit_options ==
    /\ \/ json_format' = ~json_format /\ UNCHANGED <<csv_format, custom_patterns>>
       \/ csv_format' = ~csv_format /\ UNCHANGED <<json_format, custom_patterns>>
       \/ /\ custom_patterns' \in {"empty", "valid", "invalid"} \ {custom_patterns}
          /\ UNCHANGED <<json_format, csv_format>>
    /\ UNCHANGED <<gui_directories, run_button, progress,
                   scan_thread, thread_pc, after_queue, gui_scan_data, view_button,
                   gui_shown, gui_completed,
                   aggVars, scanVars, xmlVars, lnVars, fnVars, mnVars, svVars, outVars, gtVars>>

\* run_scan: formats, from the checkboxes
GuiFormats ==
    (IF json_format THEN {"json"} ELSE {}) \cup (IF csv_format THEN {"csv"} ELSE {})

\* mutant of StartScan: the thread is started with the button left enabled
StartScan_ButtonLeftEnabled(t) ==
    /\ run_button' = run_button
    /\ progress' = TRUE
    /\ scan_thread' = t
    /\ thread_pc' = [thread_pc EXCEPT ![t] = "scan"]

\* run_scan, from "Disable run button" on: the button is disabled, the
\* progress bar runs, and the thread t is created and started
StartScan(t) ==
    /\ run_button' = "disabled"
    /\ progress' = TRUE
    /\ scan_thread' = t
    /\ thread_pc' = [thread_pc EXCEPT ![t] = "scan"]

\* run_scan, the command of the Run Scan button: a disabled button does not
\* call it.  Without a directory or without a format an error box is shown;
\* a custom pattern that does not compile makes KeybindScanner(...) raise,
\* and Tk prints the traceback; in these cases run_scan leaves the button
\* and starts no thread.
run_scan ==
    /\ run_button = "normal"
    /\ IF gui_directories = <<>>
       THEN /\ gui_shown' = "Please select at least one directory to scan."
            /\ UNCHANGED <<run_button, progress, scan_thread, thread_pc>>
       ELSE IF GuiFormats = {}
       THEN /\ gui_shown' = "Please select at least one output format."
            /\ UNCHANGED <<run_button, progress, scan_thread, thread_pc>>
       ELSE IF custom_patterns = "invalid"
       THEN /\ gui_shown' = "traceback"
            /\ UNCHANGED <<run_button, progress, scan_thread, thread_pc>>
       ELSE /\ Cardinality(Started) < MaxScans
            /\ StartScan(Cardinality(Started) + 1)
            /\ UNCHANGED gui_shown
    /\ UNCHANGED <<gui_directories, json_format, csv_format, custom_patterns,
                   after_queue, gui_scan_data, view_button, gui_completed,
                   aggVars, scanVars, xmlVars, lnVars, fnVars, mnVars, svVars, outVars, gtVars>>

\* the variables a scan thread does not write
ThreadFrame ==
    UNCHANGED <<gui_directories, json_format, csv_format, custom_patterns, run_button,
                progress, scan_thread, gui_scan_data, view_button, gui_shown, gui_completed,
                aggVars, scanVars, xmlVars, lnVars, fnVars, mnVars, svVars, outVars, gtVars>>

\* _run_scan_thread, try: scan_directories returns or raises
thread_scan_directories(t) ==
    /\ thread_pc[t] = "scan"
    /\ \E raised \in BOOLEAN :
          thread_pc' = [thread_pc EXCEPT ![t] = IF raised THEN "except" ELSE "save"]
    /\ UNCHANGED after_queue
    /\ ThreadFrame

\* _run_scan_thread, try: save_results returns or raises
thread_save_results(t) ==
    /\ thread_pc[t] = "save"
    /\ \E raised \in BOOLEAN :
          thread_pc' = [thread_pc EXCEPT ![t] = IF raised THEN "except" ELSE "show"]
    /\ UNCHANGED after_queue
    /\ ThreadFrame

\* _run_scan_thread, end of try: root.after(0, lambda: self.show_results(scan_data))
thread_after_show_results(t) ==
    /\ thread_pc[t] = "show"
    /\ after_queue' = After(after_queue, "show_results", t)
    /\ thread_pc' = [thread_pc EXCEPT ![t] = "finally"]
    /\ ThreadFrame

\* _run_scan_thread, except Exception: root.after(0, lambda: messagebox.showerror(...))
thread_after_showerror(t) ==
    /\ thread_pc[t] = "except"
    /\ after_queue' = After(after_queue, "showerror", t)
    /\ thread_pc' = [thread_pc EXCEPT ![t] = "finally"]
    /\ ThreadFrame

\* _run_scan_thread, finally: root.after(0, self.scan_complete), and the
\* thread ends
thread_after_scan_complete(t) ==
    /\ thread_pc[t] = "finally"
    /\ after_queue' = After(after_queue, "scan_complete", t)
    /\ thread_pc' = [thread_pc EXCEPT ![t] = "ended"]
    /\ ThreadFrame

\* one step of the scan thread t
run_scan_thread(t) ==
    \/ thread_scan_directories(t)
    \/ thread_save_results(t)
    \/ thread_after_show_results(t)
    \/ thread_after_showerror(t)
    \/ thread_after_scan_complete(t)

\* the variables no callback of the main loop writes
CallbackFrame ==
    UNCHANGED <<gui_directories, json_format, csv_format, custom_patterns,
                scan_thread, thread_pc,
                aggVars, scanVars, xmlVars, lnVars, fnVars, mnVars, svVars, outVars, gtVars>>

\* show_results, run by the main loop: the result is stored and the summary
\* is shown
show_results ==
    /\ Due("show_results")
    /\ gui_scan_data' = Head(after_queue).scan
    /\ gui_shown' = "Scan complete!"
    /\ after_queue' = Tail(after_queue)
    /\ UNCHANGED <<run_button, progress, view_button, gui_completed>>
    /\ CallbackFrame

\* lambda: messagebox.showerror("Error", f"Scan failed: {e}"), run by the
\* main loop.  The name e is unbound when the except clause is left, which
\* the thread does right after root.after: the box is shown when the lambda
\* reads e before that, and the lambda raises NameError, of which Tk prints
\* the traceback, when it reads e after.
showerror ==
    /\ Due("showerror")
    /\ gui_shown' \in {"Scan failed", "traceback"}
    /\ after_queue' = Tail(after_queue)
    /\ UNCHANGED <<run_button, progress, gui_scan_data, view_button, gui_completed>>
    /\ CallbackFrame

\* scan_complete, run by the main loop
scan_complete ==
    /\ Due("scan_complete")
    /\ run_button' = "normal"
    /\ progress' = FALSE
    /\ view_button' = IF gui_scan_data # 0 THEN "normal" ELSE view_button
    /\ gui_completed' = gui_completed \cup {Head(after_queue).scan}
    /\ after_queue' = Tail(after_queue)
    /\ UNCHANGED <<gui_scan_data, gui_shown>>
    /\ CallbackFrame

\* root.mainloop(): the callback that is due is run
mainloop == show_results \/ showerror \/ scan_complete

GuiNext ==
    \/ add_directory
    \/ remove_directory
    \/ edit_options
    \/ run_scan
    \/ \E t \in Scans : run_scan_thread(t)
    \/ mainloop

SpecGui == GuiInit /\ [][GuiNext]_vars

\* A started thread is scheduled and its calls return or raise, so each of
\* its steps is taken in the end; root.mainloop() runs a callback that is due.
GuiFairness ==
    /\ \A t \in Scans : WF_vars(run_scan_thread(t))
    /\ WF_vars(mainloop)

SpecGuiLive == GuiInit /\ [][GuiNext]_vars /\ GuiFairness

-----------------------------------------------------------------------------
(* Claims about aggregate_results (SpecAgg) *)

Aggregated == phase \in {"aggregated", "reaggregated"}

KeyNames == { r.key_name : r \in RawMatches }

\* the raw matches of rs with the given mod_name and key_name, in list order
GroupOf(rs, mod_name, key_name) ==
    SelectSeq(rs, LAMBDA r : r.mod_name = mod_name /\ r.key_name = key_name)

ModsOf(rs, key_name) ==
    { rs[i].mod_name : i \in { j \in DOMAIN rs : rs[j].key_name = key_name } }

RecordCount(agg, key_name) ==
    IF DictHas(agg, key_name) THEN Len(DictGet(agg, key_name)) ELSE 0

\* C1: for every key k, aggregated[k] holds as many records as there are
\* distinct mod_names among the raw matches whose key_name is k (none when no
\* raw match has key k), so the GUI flags k as a conflict exactly when two or
\* more distinct mod_names reference k.
C1_RecordsPerKey ==
    Aggregated =>
        /\ \A k \in KeyNames :
              RecordCount(aggregated, k) = Cardinality(ModsOf(results, k))
        /\ \A k \in DictKeys(aggregated) :
              IsConflict(DictGet(aggregated, k))
                  <=> Cardinality(ModsOf(results, k)) >= 2

\* a key referenced three times or more by exactly two mods, and a key
\* referenced twice or more by a single mod, have been aggregated
C1_Witness ==
    /\ phase = "aggregated"
    /\ \E k \in KeyNames :
          /\ RecordCount(aggregated, k) = 2
          /\ Len(SelectSeq(results, LAMBDA r : r.key_name = k)) >= 3

\* C2: within each aggregated[k] no two records share (mod_name, key_name),
\* and every record stored under k has key_name k.
C2_UniquePairs ==
    Aggregated =>
        \A e \in Range(aggregated) :
            /\ \A i \in DOMAIN e.v : e.v[i].key_name = e.k
            /\ \A i, j \in DOMAIN e.v :
                  i # j => <<e.v[i].mod_name, e.v[i].key_name>>
                             # <<e.v[j].mod_name, e.v[j].key_name>>

\* two keys were aggregated, one of them with two records, and some pair
\* occurred more than once in the input
C2_Witness ==
    /\ phase = "aggregated"
    /\ Cardinality(DictKeys(aggregated)) = 2
    /\ \E e \in Range(aggregated) : Len(e.v) = 2
    /\ Len(Flatten(aggregated)) < Len(results)

\* q lists the elements of the set S of str once each, in ascending order
AscendingStrs(q, S) ==
    /\ Range(q) = S
    /\ \A i \in 1..(Len(q) - 1) : StrLess(q[i], q[i + 1])

\* q lists the elements of the set S of int once each, in ascending order
AscendingInts(q, S) ==
    /\ Range(q) = S
    /\ \A i \in 1..(Len(q) - 1) : q[i] < q[i + 1]

FirstIndex(group, context) ==
    CHOOSE i \in DOMAIN group :
        /\ group[i].context = context
        /\ \A j \in 1..(i - 1) : group[j].context # context

\* q lists the distinct contexts of the group in first-seen order
FirstSeenContexts(q, group) ==
    /\ Range(q) = { r.context : r \in Range(group) }
    /\ \A i \in 1..(Len(q) - 1) :
          FirstIndex(group, q[i]) < FirstIndex(group, q[i + 1])

\* m is the merge of the group as the claim describes it
MergedAsClaimed(m, group) ==
    LET files    == { r.file_path : r \in Range(group) }
        lines    == { r.line_number.n : r \in Range(group) }
        contexts == { r.context : r \in Range(group) }
    IN  /\ \E q \in [1..Cardinality(files) -> files] :
              /\ AscendingStrs(q, files)
              /\ m.file_path = Join(<<";", " ">>, q)
        /\ \E q \in [1..Cardinality(lines) -> lines] :
              /\ AscendingInts(q, lines)
              /\ m.line_number =
                    PyStr(Join(<<";", " ">>, [i \in DOMAIN q |-> Str(q[i])]))
        /\ \E q \in [1..Cardinality(contexts) -> contexts] :
              /\ FirstSeenContexts(q, group)
              /\ m.context = Join(<<" ", "|", " ">>,
                                  SubSeq(q, 1, IF Len(q) < 3 THEN Len(q) ELSE 3))

\* C4: the record of a (mod_name, key_name) group with more than one raw
\* match has as file_path the distinct file paths in sorted order joined with
\* "; ", as line_number the distinct line numbers in ascending numeric order
\* joined with "; ", and as context the first up to 3 distinct contexts in
\* first-seen order joined with " | "; the record of a group with exactly one
\* raw match is that raw match.
C4_MergedFields ==
    phase = "aggregated" =>
        \A m \in Range(Flatten(aggregated)) :
            LET group == GroupOf(results, m.mod_name, m.key_name)
            IN  IF Len(group) = 1 THEN m = group[1]
                ELSE Len(group) > 1 /\ MergedAsClaimed(m, group)

\* a group with two files, two line numbers and four distinct contexts was
\* merged, its first raw match being neither the first file nor the first line
C4_Witness ==
    /\ phase = "aggregated"
    /\ \E m \in Range(Flatten(aggregated)) :
          LET group == GroupOf(results, m.mod_name, m.key_name)
          IN  /\ Cardinality({ r.context : r \in Range(group) }) = 4
              /\ Cardinality({ r.file_path : r \in Range(group) }) = 2
              /\ group[1].file_path = <<"b">>
              /\ group[1].line_number = PyInt(10)
              /\ group[2].line_number = PyInt(9)

\* C5: aggregate_results applied to the records of aggregate_results(R),
\* each taken as one raw match, returns a dict equal to
\* aggregate_results(R) (and does not raise).
C5_Idempotent ==
    /\ phase # "raised"
    /\ phase = "reaggregated" => DictEq(aggregated2, aggregated)

\* a result with a merged record and a key with two records was aggregated
\* a second time
C5_Witness ==
    /\ phase = "reaggregated"
    /\ Len(results2) < Len(results)
    /\ \E e \in Range(aggregated) : Len(e.v) = 2
    /\ \E r \in Range(results2) : r.line_number.t = "str"

\* C24: aggregate_results leaves its input unchanged: after the call the
\* list of raw matches has the same length and order, and every raw match
\* has the field values it had before, with its own file_path, its int
\* line_number and its context.
C24_InputUnchanged ==
    Aggregated =>
        /\ results_after = results
        /\ \A i \in DOMAIN results_after : results_after[i].line_number.t = "int"

\* a list whose first raw match heads a merged group with two files and two
\* line numbers was aggregated
C24_Witness ==
    /\ phase = "aggregated"
    /\ Len(results) = MaxResults
    /\ \E m \in Range(Flatten(aggregated)) :
          /\ m.line_number.t = "str"
          /\ m.mod_name = results[1].mod_name
          /\ m.key_name = results[1].key_name
          /\ m.file_path # results[1].file_path

\* the (mod_name, key_name) pairs of a list of raw matches
PairsOf(rs) == { <<r.mod_name, r.key_name>> : r \in Range(rs) }

\* C25: the keys of the dict aggregate_results returns are exactly the
\* key_name values of the raw matches, no key maps to an empty list, and
\* the records of all keys together are as many as the distinct
\* (mod_name, key_name) pairs of the raw matches, so never more than the raw
\* matches.
C25_KeysAndCount ==
    Aggregated =>
        /\ DictKeys(aggregated) = { r.key_name : r \in Range(results) }
        /\ \A e \in Range(aggregated) : e.v # <<>>
        /\ Len(Flatten(aggregated)) = Cardinality(PairsOf(results))
        /\ Len(Flatten(aggregated)) <= Len(results)

\* two keys and three pairs among four raw matches were aggregated
C25_Witness ==
    /\ phase = "aggregated"
    /\ Len(results) = 4
    /\ Cardinality(DictKeys(aggregated)) = 2
    /\ Cardinality(PairsOf(results)) = 3

\* the list rs in the order given by the permutation p of its indices
Permuted(rs, p) == [i \in DOMAIN rs |-> rs[p[i]]]

\* what the claim compares: the merged file_path and line_number of each
\* (mod_name, key_name) pair, and the mod_names under each key
MergedByPair(agg) ==
    { <<r.mod_name, r.key_name, r.file_path, r.line_number>> :
          r \in Range(Flatten(agg)) }

ModsByKey(agg) ==
    { <<e.k, { r.mod_name : r \in Range(e.v) }>> : e \in Range(agg) }

SameMerged(agg1, agg2) ==
    /\ MergedByPair(agg1) = MergedByPair(agg2)
    /\ ModsByKey(agg1) = ModsByKey(agg2)

\* the list is in ascending order of context, then of line number: every
\* list of raw matches is a permutation of such a list
Ascending(rs) ==
    \A i \in 1..(Len(rs) - 1) :
        \/ StrLess(rs[i].context, rs[i + 1].context)
        \/ /\ rs[i].context = rs[i + 1].context
           /\ rs[i].line_number.n <= rs[i + 1].line_number.n

\* C26: for every permutation of the raw matches, aggregate_results gives
\* for each (mod_name, key_name) pair the same merged file_path and the same
\* merged line_number, and the same set of mod_names under each key. (Every
\* permutation of an ascending list is compared with that list; two lists
\* that are permutations of each other are permutations of the same
\* ascending list.)
C26_PermutationInvariant ==
    phase = "aggregated" /\ Ascending(results) =>
        \A p \in Permutations(DOMAIN results) :
            SameMerged(aggregated, AggregateResults(Permuted(results, p)))

\* a list with a merged group of two files and two line numbers was
\* aggregated, and some permutation of it gives another dict
C26_Witness ==
    /\ phase = "aggregated"
    /\ Ascending(results)
    /\ \E m \in Range(Flatten(aggregated)) :
          /\ m.line_number = PyStr(<<"9", ";", " ", "1", "0">>)
          /\ m.file_path = <<"a", "b", ";", " ", "b">>
    /\ \E p \in Permutations(DOMAIN results) :
          ~DictEq(aggregated, AggregateResults(Permuted(results, p)))

-----------------------------------------------------------------------------
(* Claims about scan_directories (Spec) *)

ScanDone == scan_pc = "done"

\* the raw match r was found in a file under the directory dir_path
BelongsTo(r, dir_path) ==
    \E p \in FilePaths : IsUnder(p, dir_path) /\ r.file_path = PathStr(p)

\* the raw matches for key_name found in files under dir_path
MatchesUnder(rs, dir_path, key_name) ==
    { r \in Range(rs) : r.key_name = key_name /\ BelongsTo(r, dir_path) }

\* C3: after scan_directories, if files belonging to two different resolved
\* mod directories each produce a raw match for the same key K, then
\* aggregated[K] contains at least two records.
C3_TwoModsConflict ==
    ScanDone =>
        \A k \in KeyNames : \A d1, d2 \in Range(mod_dirs) :
            ( /\ d1 # d2
              /\ MatchesUnder(scan_data.results, d1, k) # {}
              /\ MatchesUnder(scan_data.results, d2, k) # {} )
            => RecordCount(scan_data.aggregated, k) >= 2

\* C6: in every scan result, all raw matches that share the same
\* (mod_name, key_name) pair carry the same mod_enabled value, and the
\* mod_enabled of each merged record equals the mod_enabled of every raw
\* match merged into it.
C6_EnabledConstantInGroup ==
    ScanDone =>
        /\ \A r1, r2 \in Range(scan_data.results) :
              (r1.mod_name = r2.mod_name /\ r1.key_name = r2.key_name)
                  => r1.mod_enabled = r2.mod_enabled
        /\ \A e \in Range(scan_data.aggregated) : \A m \in Range(e.v) :
              \A r \in Range(GroupOf(scan_data.results, m.mod_name, m.key_name)) :
                  r.mod_enabled = m.mod_enabled

\* C7: in every result of scan_directories, total_matches equals the number
\* of raw matches in results and total_files_scanned equals the number of
\* distinct file_path values among those raw matches.
C7_Totals ==
    ScanDone =>
        /\ scan_data.total_matches = Len(scan_data.results)
        /\ scan_data.total_files_scanned
               = Cardinality({ scan_data.results[i].file_path : i \in DOMAIN scan_data.results })

\* r/A/main.lua matches x on two lines (and y once) and r/B/main.lua matches
\* x once: four raw matches from two files, and two records under x
C7_Witness ==
    /\ ScanDone
    /\ fs[Child(DirRA, MainLua)] = TextFile(Body2)
    /\ fs[Child(DirRB, MainLua)] = TextFile(Body1)
    /\ Len(SelectSeq(scan_data.results, LAMBDA r : r.key_name = <<"x">>)) = 3
    /\ scan_data.total_matches = 4
    /\ scan_data.total_files_scanned = 2
    /\ RecordCount(scan_data.aggregated, <<"x">>) = 2

\* what the policy of collect_mod_directories gives for one root
ExpectedModDirs(files, root) ==
    IF ~(Exists(files, root) /\ IsDir(root)) THEN {}
    ELSE LET subs == { d \in Dirs : Len(d) > 1 /\ Parent(d) = root /\ HasModFiles(files, d) }
         IN  IF subs # {} THEN subs
             ELSE IF HasModFiles(files, root) THEN {root}
             ELSE {}

\* resolved is, root after root, the directories the policy gives for the root
RECURSIVE RootByRoot(_, _, _)
RootByRoot(files, roots, resolved) ==
    IF roots = <<>> THEN resolved = <<>>
    ELSE LET expected == ExpectedModDirs(files, Head(roots))
             n        == Cardinality(expected)
         IN  /\ Len(resolved) >= n
             /\ { resolved[i] : i \in 1..n } = expected
             /\ RootByRoot(files, Tail(roots), SubSeq(resolved, n + 1, Len(resolved)))

C9_EnabledDefault ==
    /\ scan_pc # "raised"
    /\ ScanDone =>
          /\ \A d \in Range(mod_dirs) :
                /\ DictHas(scan_data.mod_info, PathStr(d))
                /\ LET enabled == DictGet(scan_data.mod_info, PathStr(d)).enabled
                   IN  /\ \A e \in Range(mod_status) : e.k = Name(d) => enabled = e.v
                       /\ (\A e \in Range(mod_status) : e.k # Name(d)) => enabled
          /\ mod_status_xml.kind \in {"none", "missing", "malformed"} =>
                /\ mod_status = <<>>
                /\ \A e \in Range(scan_data.mod_info) : e.v.enabled
                /\ \A r \in Range(scan_data.results) : r.mod_enabled

\* a scan with a malformed manifest went through: two mods were resolved,
\* both are enabled and their files were scanned
C9_Witness ==
    /\ ScanDone
    /\ mod_status_xml.kind = "malformed"
    /\ ~dry_run
    /\ Len(mod_dirs) = 2 /\ mod_dirs[1] # mod_dirs[2]
    /\ Len(scan_data.mod_info) = 2
    /\ \A e \in Range(scan_data.mod_info) : e.v.enabled
    /\ scan_data.results # <<>>

-----------------------------------------------------------------------------
(* Claims about parse_mod_status_xml (SpecXml) *)

XmlParsed == xml_pc = "parsed"

\* the mod elements under the root whose id has a '-', by position
DashedMods ==
    { i \in DOMAIN xml_children :
        /\ xml_children[i].tag = <<"m", "o", "d">>
        /\ xml_children[i].id.has
        /\ "-" \in Range(xml_children[i].id.s) }

\* everything after the first '-' of s: s is a prefix without '-', a '-', and it
AfterFirstDash(s) ==
    CHOOSE t \in { SubSeq(s, i + 1, Len(s)) : i \in DOMAIN s } :
        \E i \in DOMAIN s :
            /\ s[i] = "-"
            /\ "-" \notin Range(SubSeq(s, 1, i - 1))
            /\ t = SubSeq(s, i + 1, Len(s))

DerivedName(i) == AfterFirstDash(xml_children[i].id.s)

\* the active attribute of child i equals "true" case-insensitively
ActiveIsTrue(i) ==
    /\ xml_children[i].active.has
    /\ Len(xml_children[i].active.s) = 4
    /\ xml_children[i].active.s[1] \in {"t", "T"}
    /\ xml_children[i].active.s[2] \in {"r", "R"}
    /\ xml_children[i].active.s[3] \in {"u", "U"}
    /\ xml_children[i].active.s[4] \in {"e", "E"}

\* the key set is the set of derived names of the mod elements whose id has
\* a '-'
KeySetAsClaimed ==
    { xml_status[j].k : j \in DOMAIN xml_status } = { DerivedName(i) : i \in DashedMods }

\* C10: parse_mod_status_xml returns a mapping whose key set is exactly the
\* set of strings obtained by taking, for each mod element whose id contains
\* '-', everything after the first '-'; each value is true iff the active
\* attribute of a mod element with that derived name equals "true"
\* case-insensitively; mod elements whose id contains no '-' contribute no
\* entry.
C10_StatusMapping ==
    XmlParsed =>
        /\ KeySetAsClaimed
        /\ \A e \in Range(xml_status) :
              e.v <=> \E i \in DashedMods : DerivedName(i) = e.k /\ ActiveIsTrue(i)

\* C10, with the value stated for ids that share a derived name: the key set
\* is as above, and each value is true iff the active attribute of the last
\* mod element with that derived name equals "true" case-insensitively.
C10_StatusMapping_LastWins ==
    XmlParsed =>
        /\ KeySetAsClaimed
        /\ \A e \in Range(xml_status) :
              LET last == CHOOSE i \in DashedMods :
                              /\ DerivedName(i) = e.k
                              /\ \A j \in DashedMods : DerivedName(j) = e.k => j <= i
              IN  e.v <=> ActiveIsTrue(last)

\* a manifest in which two mod elements with different ids share a derived
\* name and differ in active, next to an id with two '-' and a mod element
\* that contributes no entry, has been parsed
C10_Witness ==
    /\ XmlParsed
    /\ \E i, j \in DashedMods :
          /\ i < j
          /\ xml_children[i].id # xml_children[j].id
          /\ DerivedName(i) = DerivedName(j)
          /\ ActiveIsTrue(i) # ActiveIsTrue(j)
    /\ \E i \in DOMAIN xml_children : i \notin DashedMods
    /\ Len(xml_status) < Cardinality(DashedMods)

-----------------------------------------------------------------------------
(* Claims about scan_file on one line (SpecLine) *)

LineScanned == ln_pc = "scanned"

\* the scanner was constructed with the default patterns and without whole_word
DefaultPatternsPlain == ln_args.patterns = <<>> /\ ~ln_args.whole_word

\* the positions of the calls in the line
CallsInLine == { i \in DOMAIN ln_tokens : ln_tokens[i].call }

\* scan_file returned exactly one raw match, for the call at position i
OneMatchFor(i) ==
    /\ Len(ln_results) = 1
    /\ ln_results[1].key_name = ln_tokens[i].key
    /\ ln_results[1].matched_text = CallText(ln_tokens[i].form, ln_tokens[i].key)

\* C11: for each of the four default call forms F and every key X, scanning
\* a line that contains one call F("X") with the default patterns yields
\* exactly one raw match, whose key_name is X and whose matched_text is the
\* full call expression F("X").
C11_OneMatchPerCall ==
    (LineScanned /\ DefaultPatternsPlain) =>
        \A i \in CallsInLine : CallsInLine = {i} => OneMatchFor(i)

\* C11, for the keys a quoted argument of the patterns can hold: the same,
\* for every non-empty key X without a quote character (" or ').
C11_OneMatchPerCall_NoQuoteInKey ==
    (LineScanned /\ DefaultPatternsPlain) =>
        \A i \in CallsInLine :
            ( /\ CallsInLine = {i}
              /\ ln_tokens[i].key # <<>>
              /\ \A j \in DOMAIN ln_tokens[i].key : ln_tokens[i].key[j] \notin {"\"", "'"} )
            => OneMatchFor(i)

\* the line  if InputReleased("Key_X") then  was scanned with the defaults
\* and gave one raw match
C11_Witness ==
    /\ LineScanned
    /\ ln_args = [patterns |-> <<>>, case_insensitive |-> FALSE, whole_word |-> FALSE]
    /\ Len(ln_tokens) = 3
    /\ CallsInLine = {2}
    /\ ln_tokens[2].form = DEFAULT_PATTERNS[3].form
    /\ ln_tokens[2].key = <<"K", "e", "y", "_", "X">>
    /\ OneMatchFor(2)

-----------------------------------------------------------------------------
(* Claims about should_scan_file (SpecName) *)

NameClassified == fn_pc = "classified"

\* the names should_scan_file is to accept, compared case-insensitively
ScannedNames ==
    { <<"m", "a", "i", "n", ".", "l", "u", "a">>,
      <<"o", "p", "t", "i", "o", "n", "s", ".", "l", "u", "a">>,
      <<"i", "n", "f", "o", ".", "t", "x", "t">> }

NameAsClaimed(name) ==
    \/ Lower(name) \in ScannedNames
    \/ /\ Len(name) >= 6
       /\ Lower(SubSeq(name, 1, 6)) = <<"r", "e", "a", "d", "m", "e">>

\* C12: should_scan_file returns true exactly for file names that, compared
\* case-insensitively, equal main.lua, options.lua or info.txt, or begin
\* with readme; it returns false for every other name.
C12_ScannedNames ==
    NameClassified => (fn_scan <=> NameAsClaimed(NameOf(fn_name)))

-----------------------------------------------------------------------------
(* Claims about extract_mod_name (SpecModName) *)

NameReturned == mn_pc = "returned"

\* the lines extract_mod_name can read from the file at p (none when the file
\* is absent, unreadable or undecodable)
ReadableLines(p) ==
    IF p \in FilePaths /\ fs[p].exists /\ fs[p].readable /\ fs[p].decodable
    THEN fs[p].lines ELSE <<>>

\* the name/title/mod_name lines of info.txt, by position
NameLines(dir_path) ==
    LET lines == ReadableLines(Child(dir_path, InfoTxt))
    IN  { i \in DOMAIN lines : NameField(lines[i]).found }

\* the trimmed value of the first of them
FirstNameValue(dir_path) ==
    LET lines == ReadableLines(Child(dir_path, InfoTxt))
        first == CHOOSE i \in NameLines(dir_path) : \A j \in NameLines(dir_path) : i <= j
    IN  NameField(lines[first]).name

\* the readme-like files of the directory that hold a non-empty line
ReadmesWithText(dir_path) ==
    { p \in FilePaths :
        /\ Len(p) = Len(dir_path) + 1 /\ Parent(p) = dir_path
        /\ Len(Name(p)) >= 6
        /\ Lower(SubSeq(Name(p), 1, 6)) = <<"r", "e", "a", "d", "m", "e">>
        /\ \E i \in DOMAIN ReadableLines(p) : Strip(ReadableLines(p)[i]) # <<>> }

\* the text after a leading "# " of the first non-empty line of the file at p,
\* or else that line
ReadmeValue(p) ==
    LET lines == ReadableLines(p)
        first == CHOOSE i \in DOMAIN lines :
                     /\ Strip(lines[i]) # <<>>
                     /\ \A j \in 1..(i - 1) : Strip(lines[j]) = <<>>
        line  == Strip(lines[first])
    IN  IF Len(line) >= 2 /\ line[1] = "#" /\ line[2] = " "
        THEN Strip(SubSeq(line, 3, Len(line)))
        ELSE line

\* C13: extract_mod_name resolves the display name in strict priority order:
\* the trimmed value of the first name/title/mod_name line of info.txt if
\* any; otherwise, from a readme-like file, the text after a leading "# "
\* heading marker or else the first non-empty line; otherwise the
\* directory's basename.  info.txt containing "name: Test Mod" gives exactly
\* "Test Mod".
C13_NamePriority ==
    NameReturned =>
        /\ IF NameLines(mn_dir) # {} THEN mn_name = FirstNameValue(mn_dir)
           ELSE IF ReadmesWithText(mn_dir) # {}
                THEN \E p \in ReadmesWithText(mn_dir) : mn_name = ReadmeValue(p)
                ELSE mn_name = Name(mn_dir)
        /\ (mn_dir = DirRA /\ fs[Child(DirRA, InfoTxt)] = TextFile(InfoNamed))
               => mn_name = <<"T", "e", "s", "t", " ", "M", "o", "d">>

\* info.txt with a name line stands next to a readme with a heading, and the
\* name of info.txt was returned
C13_Witness ==
    /\ NameReturned
    /\ mn_dir = DirRA
    /\ fs[Child(DirRA, InfoTxt)] = TextFile(InfoNamed)
    /\ fs[Child(DirRA, ReadmeMd)] = TextFile(ReadmeHeading)
    /\ mn_name = <<"T", "e", "s", "t", " ", "M", "o", "d">>

\* C14: extract_mod_name never fails: for every state of the mod directory
\* (metadata or readme absent, unreadable, undecodable, lacking a name field,
\* or the directory itself not listable) it returns a display name without
\* raising, degrading to the directory basename.
C14_NeverFails ==
    /\ mn_pc # "raised"
    /\ (NameReturned /\ NameLines(mn_dir) = {} /\ ReadmesWithText(mn_dir) = {})
           => mn_name = Name(mn_dir)


-----------------------------------------------------------------------------
(* Claim about the supplied patterns, checked under SpecLine.               *)

\* a pattern was supplied that is no regular expression or has no group
BadPatternSupplied ==
    /\ ln_pc # "new"
    /\ \E i \in DOMAIN ln_args.patterns :
          ~ln_args.patterns[i].valid \/ ~ln_args.patterns[i].group

\* C15: a supplied pattern that is not a valid regular expression or that
\* has no capture group is rejected by the constructor, so that no scanner
\* is left to scan a file with it.
C15_BadPatternRejected == BadPatternSupplied => ln_pc = "rejected"


-----------------------------------------------------------------------------
(* Claims about failures during the scan (SpecFaults) *)

\* scan_directories was called: it returned or it raised
ScanCalled == scan_pc \in {"done", "raised"}

\* every directory of the tree may be listed
AllListable == \A d \in Dirs : fs[d].listable

\* the files whose read or decoding fails and that the run tried to scan:
\* the files at which scan_directories called scan_file (the record of line
\* 290), or would have if it had got that far
ReadFailures ==
    { p \in FilePaths :
         /\ fs[p].exists
         /\ ~(fs[p].readable /\ fs[p].decodable)
         /\ ShouldScanFile(p)
         /\ \E d \in Range(CollectModDirectories(fs, directories, listing)) : IsUnder(p, d) }

\* the run as it would be if no file existed at p
WithoutFile(p) ==
    ScanOutcome(DefaultScanner, [fs EXCEPT ![p] = NoFile],
                directories, mod_status_xml, dry_run, listing)

\* the scan was not aborted
C16_NotAborted == scan_pc = "done"

\* the failing file yields no raw matches
C16_NoMatches(p) == \A r \in Range(scan_data.results) : r.file_path # PathStr(p)

\* the failure is logged as an error
C16_LoggedAsError(p) ==
    \E i \in DOMAIN scan_log : scan_log[i].level = "ERROR" /\ scan_log[i].path = PathStr(p)

\* the raw matches are those of the run without the failing file
C16_AsIfAbsent(p) == scan_data.results = WithoutFile(p).data.results

\* C16: a read or decode failure on one file yields no raw matches for that
\* file, is logged as an error and does not abort the scan, and the raw
\* matches of the other files are those of the run without the failing file.
C16_FileFailureIsolated ==
    (ScanCalled /\ AllListable) =>
        \A p \in ReadFailures :
            /\ C16_NotAborted
            /\ C16_NoMatches(p)
            /\ C16_LoggedAsError(p)
            /\ C16_AsIfAbsent(p)

\* the parts of C16 taken one by one
C16_Part_NotAborted ==
    (ScanCalled /\ AllListable) => \A p \in ReadFailures : C16_NotAborted
C16_Part_NoMatches ==
    (ScanCalled /\ AllListable) => \A p \in ReadFailures : C16_NoMatches(p)
C16_Part_Logged ==
    (ScanCalled /\ AllListable) => \A p \in ReadFailures : C16_LoggedAsError(p)
C16_Part_LoggedDecode ==
    (ScanCalled /\ AllListable) =>
        \A p \in ReadFailures : fs[p].readable => C16_LoggedAsError(p)
C16_Part_AsIfAbsent ==
    (ScanCalled /\ AllListable) => \A p \in ReadFailures : C16_AsIfAbsent(p)


\* the directories of the run that fail: an input directory that does not
\* exist, and an input directory or a directory below one that may not be
\* listed
DirFailures ==
    { d \in Range(directories) : ~Exists(fs, d) }
    \cup { d \in Dirs : /\ ~fs[d].listable
                        /\ \E root \in Range(directories) : d = root \/ IsUnder(d, root) }

\* the tree with the permission to list every directory
Healthy == [p \in DOMAIN fs |-> IF p \in Dirs THEN Directory(TRUE) ELSE fs[p]]

\* the raw matches of the run on the healthy tree that are not from a file
\* below a failing directory
MatchesOfOthers ==
    { r \in Range(ScanOutcome(DefaultScanner, Healthy, directories, mod_status_xml,
                              dry_run, listing).data.results) :
         \A d \in DirFailures : ~StartsWith(r.file_path, PathStr(d) \o <<"/">>) }

\* C17: when a root or a subdirectory is missing or cannot be listed,
\* scan_directories does not raise and still returns the matches of all
\* other directories.
C17_DirFailureIsolated ==
    (ScanCalled /\ DirFailures # {}) =>
        /\ scan_pc = "done"
        /\ MatchesOfOthers \subseteq Range(scan_data.results)

\* the part of C17 about missing input directories
C17_Part_Missing ==
    (ScanCalled /\ DirFailures # {} /\ AllListable) =>
        /\ scan_pc = "done"
        /\ MatchesOfOthers \subseteq Range(scan_data.results)

\* the part of C17 about a directory below a mod directory
C17_Part_Nested ==
    (ScanCalled /\ DirFailures = {DirRAS} /\ directories = <<DirR>>) =>
        /\ scan_pc = "done"
        /\ MatchesOfOthers \subseteq Range(scan_data.results)


-----------------------------------------------------------------------------
(* Claim about the log of scan_directories, checked under Spec.             *)

\* a record of the log names this path
Logged(path) == \E i \in DOMAIN scan_log : scan_log[i].path = path

\* a record of the log at this level names this path
LoggedAt(level, path) ==
    \E i \in DOMAIN scan_log : scan_log[i].level = level /\ scan_log[i].path = path

\* an input directory that does not exist is logged
C18_MissingRootLogged ==
    \A root \in Range(directories) : ~Exists(fs, root) => Logged(PathStr(root))

\* an input directory without mod files is logged
C18_NoModFilesLogged ==
    \A root \in Range(directories) :
        (Exists(fs, root) /\ ModDirsOfRoot(fs, root, listing) = <<>>)
            => LoggedAt("WARNING", PathStr(root))

\* a manifest path at which nothing exists is logged
C18_MissingManifestLogged ==
    mod_status_xml.kind = "missing" => Logged(PathStr(ModsXml))

\* a manifest that cannot be parsed is logged
C18_MalformedManifestLogged ==
    mod_status_xml.kind = "malformed" => LoggedAt("ERROR", PathStr(ModsXml))

\* C18: every recovered failure produces a log record naming the affected
\* path: an input directory that does not exist, an input directory with no
\* mod files, and a manifest path at which nothing exists are each logged.
C18_FailuresLogged ==
    ScanDone =>
        /\ C18_MissingRootLogged
        /\ C18_NoModFilesLogged
        /\ C18_MissingManifestLogged
        /\ C18_MalformedManifestLogged

\* the parts of C18 taken one by one
C18_Part_MissingRoot == ScanDone => C18_MissingRootLogged
C18_Part_NoModFiles == ScanDone => C18_NoModFilesLogged
C18_Part_MissingManifest == ScanDone => C18_MissingManifestLogged
C18_Part_MalformedManifest == ScanDone => C18_MalformedManifestLogged


-----------------------------------------------------------------------------
(* Claims about save_results (SpecSave) *)

\* the files save_results left were read back
ReadBack == sv_pc \in {"read", "read_after_raise"}

\* every path and display name of the scan_data can be encoded to UTF-8
EncodableData(data) ==
    \A i \in DOMAIN data.mod_info :
        /\ Utf8Encodable(data.mod_info[i].k)
        /\ Utf8Encodable(data.mod_info[i].v.name)

\* C19: for every scan_data scan_directories produced, after save_results
\* with the json format, json.load of keybinds.json gives a value equal to
\* the scan_data, field for field.
C19_JsonRoundTrip ==
    ReadBack /\ "json" \in sv_formats
        => sv_loaded.ok /\ sv_loaded.val = JScanData(SavedData(sv_mods))

\* C19, the case that holds: when every path and display name can be
\* encoded to UTF-8, save_results returns and the value read back is equal
\* to the scan_data.
C19_Part_Encodable ==
    ReadBack /\ "json" \in sv_formats /\ EncodableData(SavedData(sv_mods))
        => /\ sv_pc = "read"
           /\ sv_loaded.ok
           /\ sv_loaded.val = JScanData(SavedData(sv_mods))

\* C19, the case that fails: with a mod directory whose name is no valid
\* UTF-8, save_results raises and keybinds.json is left cut off before the
\* string that holds the name, so that json.load fails on it.
C19_Part_Raises ==
    ReadBack /\ "json" \in sv_formats /\ ~EncodableData(SavedData(sv_mods))
        => /\ sv_pc = "read_after_raise"
           /\ sv_json.exists
           /\ ~sv_loaded.ok

\* a scan_data with escaped characters went through the round trip
C19_Part_Encodable_Reached ==
    /\ sv_pc = "read"
    /\ "json" \in sv_formats
    /\ Len(sv_mods) = 2
    /\ \E i \in DOMAIN sv_mods : sv_mods[i].dir_path = DirRB
    /\ \E i \in DOMAIN sv_mods : sv_mods[i].dir_path = Child(DirR, <<"C">>)

C19_Part_Raises_Reached ==
    /\ sv_pc = "read_after_raise"
    /\ "json" \in sv_formats
    /\ Len(sv_mods) = 2

\* the rows csv.reader gives for a keybinds.csv that holds the header and one
\* row per raw match
HeaderAndRows(rs) ==
    IF rs = <<>> THEN <<>>
    ELSE <<FieldNames>> \o [i \in DOMAIN rs |-> RowOf(rs[i])]

\* C20: after save_results with the csv format, keybinds.csv exists and
\* holds a header row with the field names of the first raw match, then
\* exactly one row per raw match; with zero raw matches it holds no rows.
C20_CsvHeaderAndRows ==
    ReadBack /\ "csv" \in sv_formats
        => /\ sv_csv.exists
           /\ sv_rows = HeaderAndRows(SavedData(sv_mods).results)

\* C20, the case that holds: when every path and display name can be
\* encoded to UTF-8, the file holds the header and one row per raw match.
C20_Part_Encodable ==
    ReadBack /\ "csv" \in sv_formats /\ EncodableData(SavedData(sv_mods))
        => /\ sv_pc = "read"
           /\ sv_csv.exists
           /\ sv_rows = HeaderAndRows(SavedData(sv_mods).results)
           /\ Len(sv_rows) \in {0, 1 + SavedData(sv_mods).total_matches}

\* C20, zero raw matches: the file is created and is empty.
C20_Part_Empty ==
    ReadBack /\ "csv" \in sv_formats /\ sv_mods = <<>>
        => sv_csv = Output(<<>>) /\ sv_rows = <<>>

\* C20, the case that fails: with a mod directory whose name is no valid
\* UTF-8, save_results raises, and keybinds.csv is absent (the json write
\* raised first) or lacks the row of a raw match.
C20_Part_Raises ==
    ReadBack /\ "csv" \in sv_formats /\ ~EncodableData(SavedData(sv_mods))
        => /\ sv_pc = "read_after_raise"
           /\ Len(sv_rows) < 1 + SavedData(sv_mods).total_matches

C20_Part_Encodable_Reached ==
    /\ sv_pc = "read"
    /\ "csv" \in sv_formats
    /\ Len(sv_rows) = 4
    /\ \E i \in DOMAIN sv_mods : sv_mods[i].dir_path = DirRB
    /\ \E i \in DOMAIN sv_mods : sv_mods[i].dir_path = Child(DirR, <<"C">>)

C20_Part_Empty_Reached ==
    ReadBack /\ "csv" \in sv_formats /\ sv_mods = <<>>

C20_Part_Raises_Reached ==
    /\ sv_pc = "read_after_raise"
    /\ sv_formats = {"csv"}
    /\ sv_csv.exists
    /\ Len(sv_rows) = 2


-----------------------------------------------------------------------------
(* Claims about the output directory and the formats (SpecOut) *)

\* save_results was called, by main or by a program of its own
SaveResultsRan ==
    /\ out_pc \in {"returned", "raised"}
    /\ out_call.entry = "save_results" \/ ~out_call.dry_run

\* the formats save_results was called with
FormatsSaved ==
    IF out_call.entry = "main" THEN ParsedFormats(out_call.formats) ELSE out_call.formats

\* the output files of the supported formats among FormatsSaved
RequestedFiles ==
    { Child(out_call.output_dir, KeybindsJson) : f \in FormatsSaved \cap {"json"} }
    \cup { Child(out_call.output_dir, KeybindsCsv) : f \in FormatsSaved \cap {"csv"} }

\* the parent of the output path is a directory
ParentExists ==
    Len(out_call.output_dir) = 1 \/ Parent(out_call.output_dir) \in out_dirs

\* C21: save_results creates output_dir when it does not exist, whether or
\* not its parent exists, and succeeds when output_dir is a directory
\* already; the requested files are then written inside it. (A regular file
\* standing at the output path is no case of the claim.)
C21_OutputDirCreated ==
    SaveResultsRan /\ out_call.output_dir \notin out_files
        => /\ out_error = "none"
           /\ out_call.output_dir \in out_dirs
           /\ RequestedFiles \subseteq out_files

\* C21, the cases that hold: the parent of output_dir exists, or output_dir
\* is a directory already.
C21_Part_ParentExists ==
    SaveResultsRan /\ out_call.output_dir \notin out_files /\ ParentExists
        => /\ out_error = "none"
           /\ out_call.output_dir \in out_dirs
           /\ RequestedFiles \subseteq out_files

C21_Part_Existed ==
    SaveResultsRan /\ out_call.existed
        => out_error = "none" /\ RequestedFiles \subseteq out_files

\* C21, the case that fails: the parent of output_dir does not exist; mkdir
\* raises FileNotFoundError, and neither the directory nor a file is made.
C21_Part_ParentMissing ==
    SaveResultsRan /\ ~ParentExists
        => /\ out_error = "FileNotFoundError"
           /\ out_call.output_dir \notin out_dirs
           /\ RequestedFiles \cap out_files = {}

C21_Part_ParentExists_Reached ==
    /\ SaveResultsRan
    /\ out_call.output_dir = DirPOut
    /\ ~out_call.existed
    /\ FormatsSaved = {"json", "csv"}
    /\ out_error = "none"

C21_Part_Existed_Reached ==
    SaveResultsRan /\ out_call.existed /\ out_call.entry = "main" /\ FormatsSaved = {"csv"}

C21_Part_ParentMissing_Reached ==
    SaveResultsRan /\ ~ParentExists /\ out_call.entry = "main"

\* a format outside json and csv was asked for
UnsupportedFormat == \E f \in out_call.formats : f \notin {"json", "csv"}

\* C22: asking for a format outside {json, csv} ends the run with a fatal
\* error before any scan starts; the format is never silently ignored.
C22_UnsupportedFormatFatal ==
    out_pc # "setup" /\ UnsupportedFormat
        => out_error = "SystemExit" /\ ~out_scanned

\* C22, the case that holds: main rejects the format in parse_args, before
\* a scanner exists.
C22_Part_Main ==
    out_pc # "setup" /\ UnsupportedFormat /\ out_call.entry = "main"
        => /\ out_pc = "exited"
           /\ out_error = "SystemExit"
           /\ ~out_scanned
           /\ RequestedFiles \cap out_files = {}

\* C22, the case that fails: save_results, called with such a format, writes
\* the files of the supported formats and returns without an error.
C22_Part_SaveResults ==
    (out_pc # "setup" /\ UnsupportedFormat /\ out_call.entry = "save_results"
     /\ ParentExists /\ out_call.output_dir \notin out_files)
        => /\ out_pc = "returned"
           /\ out_error = "none"
           /\ { f \in out_files : IsUnder(f, out_call.output_dir) } = RequestedFiles

C22_Part_Main_Reached ==
    out_pc = "exited" /\ out_call.formats = {"json", "xml"} /\ ~out_call.dry_run

C22_Part_SaveResults_Reached ==
    /\ out_pc = "returned"
    /\ out_call.entry = "save_results"
    /\ out_call.formats = {"xml"}
    /\ { f \in out_files : IsUnder(f, out_call.output_dir) } = {}


-----------------------------------------------------------------------------
(* Claims about the size gate of scan_file (SpecGate) *)

GateScanned == gt_pc = "scanned"

\* the lines of the file that hold a call of a default pattern
CallLines == { i \in DOMAIN gt_file.lines : Len(gt_file.lines[i]) > 1 }

\* C23: scan_file returns no match and opens nothing for a file whose size
\* is greater than max_file_size, and it scans a text file whose size is
\* less than or equal to max_file_size: a file of exactly max_file_size
\* bytes is read and every call in it is returned.
C23_SizeGate ==
    GateScanned
        => /\ gt_file.size > gt_max
                => gt_results = <<>> /\ gt_opens = <<>>
           /\ gt_file.size <= gt_max /\ ~gt_file.nul
                => /\ gt_opens = <<"rb", "r">>
                   /\ Len(gt_results) = Cardinality(CallLines)
                   /\ { r.line_number.n : r \in Range(gt_results) } = CallLines
                   /\ gt_log = <<>>

\* a file of exactly max_file_size bytes with two calls was scanned
C23_Witness ==
    /\ GateScanned
    /\ gt_file.size = gt_max
    /\ ~gt_file.nul
    /\ Len(gt_results) = 2

\* a file one byte over max_file_size was skipped
C23_Witness_Over ==
    /\ GateScanned
    /\ gt_file.size = gt_max + 1
    /\ CallLines # {}
    /\ gt_results = <<>>
    /\ gt_log = << LogRecord("WARNING", "Skipping: file too large", PathStr(GateFilePath)) >>

-----------------------------------------------------------------------------
(* Claims about the roots and the coverage of the scan (Spec) *)

\* the raw matches of the scan whose file_path is p
MatchesOfFile(p) ==
    SelectSeq(scan_data.results, LAMBDA r : r.file_path = PathStr(p))

\* how many times scan_directories passed p to scan_file
TimesScanned(p) ==
    Len(SelectSeq(scan_log, LAMBDA rec : rec = LogRecord("DEBUG", "Scanning file", PathStr(p))))

\* no directory stands twice in the list
NoRepeat(ds) == \A i, j \in DOMAIN ds : ds[i] = ds[j] => i = j

\* each resolved mod directory appears once
C27_ModDirsOnce == NoRepeat(mod_dirs)

\* each occurrence in a file gives at most one raw match: the scan holds no
\* more raw matches of a file than one call of scan_file on it returns
C27_OccurrencesOnce ==
    \A p \in FilePaths :
        Len(MatchesOfFile(p)) <= Len(ScanFile(DefaultScanner, p, fs[p]))

\* C27: for any list of roots, the same root listed twice and a container
\* root listed with one of its own mod subdirectories included, each resolved
\* mod directory appears once and each occurrence contributes at most one raw
\* match, so that total_matches counts every occurrence once.
C27_NoDoubleCount ==
    ScanDone => C27_ModDirsOnce /\ C27_OccurrencesOnce

\* the root r listed twice: its file is scanned twice and its one call is
\* counted twice
C27_RootTwice_Reached ==
    /\ ScanDone /\ ~dry_run
    /\ directories = <<DirR, DirR>>
    /\ mod_dirs = <<DirR, DirR>>
    /\ fs[Child(DirR, MainLua)] = TextFile(Body1)
    /\ TimesScanned(Child(DirR, MainLua)) = 2
    /\ scan_data.total_matches = 2

\* the container r listed with its own mod subdirectory r/A: r/A is resolved
\* twice
C27_ContainerAndSub_Reached ==
    /\ ScanDone /\ ~dry_run
    /\ directories = <<DirR, DirRA>>
    /\ mod_dirs = <<DirRA, DirRA>>
    /\ Len(MatchesOfFile(Child(DirRA, MainLua))) = 2
    /\ Len(ScanFile(DefaultScanner, Child(DirRA, MainLua), fs[Child(DirRA, MainLua)])) = 1

\* no root is listed twice, and no root is listed with a directory under it
SeparateRoots(ds) ==
    /\ NoRepeat(ds)
    /\ \A i, j \in DOMAIN ds : ~IsUnder(ds[i], ds[j])

\* the part of C27 that holds: separate roots are resolved and counted once
C27_Part_SeparateRoots ==
    (ScanDone /\ SeparateRoots(directories)) => C27_ModDirsOnce /\ C27_OccurrencesOnce

\* two separate roots, each resolved once, each call counted once
C27_Part_SeparateRoots_Reached ==
    /\ ScanDone /\ ~dry_run
    /\ directories = <<DirRA, DirRB>>
    /\ mod_dirs = <<DirRA, DirRB>>
    /\ scan_data.total_matches = 2
    /\ TimesScanned(Child(DirRA, MainLua)) = 1
    /\ TimesScanned(Child(DirRB, MainLua)) = 1

\* the scannable files that exist under a root of the scan
ScannableUnderRoots ==
    { p \in FilePaths :
        /\ fs[p].exists
        /\ ShouldScanFile(p)
        /\ \E root \in Range(directories) : Exists(fs, root) /\ IsDir(root) /\ IsUnder(p, root) }

\* the positions of mod_dirs whose directory p lies in
ModDirsOf(p) == { i \in DOMAIN mod_dirs : IsUnder(p, mod_dirs[i]) }

\* C28: for every existing root, every file under it, at any depth and
\* directly in the root too, whose name satisfies should_scan_file lies
\* inside exactly one resolved mod directory and is scanned exactly once in
\* a scan that is no dry run.
C28_Coverage ==
    (ScanDone /\ ~dry_run) =>
        \A p \in ScannableUnderRoots :
            /\ Cardinality(ModDirsOf(p)) = 1
            /\ TimesScanned(p) = 1

\* r holds main.lua and the mod subdirectory r/A: r/A alone is resolved and
\* r/main.lua is not scanned
C28_RootFileLeftOut_Reached ==
    /\ ScanDone /\ ~dry_run
    /\ directories = <<DirR>>
    /\ fs[Child(DirR, MainLua)].exists
    /\ fs[Child(DirRA, MainLua)].exists
    /\ mod_dirs = <<DirRA>>
    /\ ModDirsOf(Child(DirR, MainLua)) = {}
    /\ TimesScanned(Child(DirR, MainLua)) = 0
    /\ TimesScanned(Child(DirRA, MainLua)) = 1

\* the part of C28 that holds: a scannable file inside a resolved mod
\* directory is scanned each time the directory is visited, and a scannable
\* file inside none is not scanned
C28_Part_InsideModDir ==
    (ScanDone /\ ~dry_run) =>
        \A p \in FilePaths :
            (fs[p].exists /\ ShouldScanFile(p)) => TimesScanned(p) = Cardinality(ModDirsOf(p))

\* a file two levels under the root, inside the resolved r/A, scanned once
C28_Part_InsideModDir_Reached ==
    /\ ScanDone /\ ~dry_run
    /\ directories = <<DirR>>
    /\ mod_dirs = <<DirRA>>
    /\ fs[Child(DirRAS, MainLua)].exists
    /\ TimesScanned(Child(DirRAS, MainLua)) = 1

\* the part of C28 that holds: with separate roots, a root that is resolved
\* to itself has every scannable file under it scanned exactly once
C28_Part_RootWithoutSubMods ==
    (ScanDone /\ ~dry_run /\ SeparateRoots(directories)) =>
        \A root \in Range(directories) :
            ModDirsOfRoot(fs, root, listing) = <<root>> =>
                \A p \in ScannableUnderRoots : IsUnder(p, root) => TimesScanned(p) = 1

\* r/B is a root without subdirectories: its main.lua and its info.txt are
\* scanned once
C28_Part_RootWithoutSubMods_Reached ==
    /\ ScanDone /\ ~dry_run
    /\ directories = <<DirZ, DirRB>>
    /\ mod_dirs = <<DirRB>>
    /\ TimesScanned(Child(DirRB, MainLua)) = 1
    /\ TimesScanned(Child(DirRB, InfoTxt)) = 1

-----------------------------------------------------------------------------
(* Claims about whole_word (SpecLine) *)

\* the scanner was constructed with the default patterns and whole_word
DefaultPatternsWholeWord == ln_args.patterns = <<>> /\ ln_args.whole_word

\* the call at position i is the only call of the line and its key holds no
\* quote character
LoneCall(i) ==
    /\ CallsInLine = {i}
    /\ \A j \in DOMAIN ln_tokens[i].key : ln_tokens[i].key[j] \notin Quotes

\* the character before the call at position i is a word character
WordBefore(i) ==
    i > 1 /\ IsWord(ln_tokens[i - 1].text[Len(ln_tokens[i - 1].text)])

\* the character after the call at position i is a word character
WordAfter(i) ==
    i < Len(ln_tokens) /\ IsWord(ln_tokens[i + 1].text[1])

\* the call at position i stands as a whole word: on each side is a
\* character that is no word character, or the boundary of the line
WholeWord(i) == ~WordBefore(i) /\ ~WordAfter(i)

\* C29: with whole_word and the default patterns, a call F("X") that stands
\* as a whole word on its line is extracted as exactly one raw match with
\* key_name X; whole_word removes only the matches embedded in larger words.
C29_WholeWordKeepsCalls ==
    (LineScanned /\ DefaultPatternsWholeWord) =>
        \A i \in CallsInLine :
            LoneCall(i) =>
                /\ WholeWord(i) => OneMatchFor(i)
                /\ ln_results = <<>> => ~WholeWord(i)

\* the line  if InputPressed("x") then  scanned with whole_word: no raw match
C29_WholeWordLost_Reached ==
    /\ LineScanned
    /\ DefaultPatternsWholeWord
    /\ LineOf(ln_tokens) = <<"i", "f", " ">>
                           \o CallText(DEFAULT_PATTERNS[1].form, <<"x">>)
                           \o <<" ", "t", "h", "e", "n">>
    /\ WholeWord(2)
    /\ ln_results = <<>>

\* what the anchors do: \b before the form needs no word character before
\* the call, and \b after the closing parenthesis needs a word character
\* after it; with whole_word a lone call gives its raw match in that case
\* and no raw match in every other
C29_Part_Anchors ==
    (LineScanned /\ DefaultPatternsWholeWord) =>
        \A i \in CallsInLine :
            LoneCall(i) =>
                IF ~WordBefore(i) /\ WordAfter(i) THEN OneMatchFor(i)
                ELSE ln_results = <<>>

\* the line  if InputPressed("x")a  scanned with whole_word: one raw match
C29_Part_Anchors_Reached ==
    /\ LineScanned
    /\ DefaultPatternsWholeWord
    /\ Len(ln_tokens) = 3
    /\ ln_tokens[1].text = <<"i", "f", " ">>
    /\ ln_tokens[2] = CallToken(DEFAULT_PATTERNS[1].form, <<"x">>)
    /\ ln_tokens[3].text = <<"a">>
    /\ OneMatchFor(2)

\* the part of C29 that holds: whole_word adds no raw match, each raw match
\* of the scanner with whole_word is one of the scanner without it
C29_Part_OnlyRemoves ==
    (LineScanned /\ DefaultPatternsWholeWord) =>
        Range(ln_results)
            \subseteq Range(ScanFile(KeybindScanner(<<>>, FALSE, FALSE, DefaultScanner.max_file_size),
                                      LineFilePath, LineFile))

\* the line  aInputDown("x")InputValue("y")a : InputValue("y") alone is left
C29_Part_OnlyRemoves_Reached ==
    /\ LineScanned
    /\ DefaultPatternsWholeWord
    /\ Len(ln_tokens) = 3
    /\ CallsInLine = {1, 2}
    /\ ln_tokens[3].text = <<"a">>
    /\ Len(ln_results) = 1
    /\ ln_results[1].key_name = ln_tokens[2].key

-----------------------------------------------------------------------------
(* Claims about the scan control of the GUI (SpecGuiLive) *)

\* the scan thread t was started and its scan_complete has not run
ScanOpen(t) == t \in Started /\ t \notin gui_completed

\* at most one scan is between the start of its thread and its
\* scan_complete, and the run button is disabled as long as one is
NoOverlap ==
    /\ \A t1, t2 \in Scans : (ScanOpen(t1) /\ ScanOpen(t2)) => t1 = t2
    /\ \A t \in Scans : ScanOpen(t) => run_button = "disabled"

\* a step that starts the scan thread t
StartsThread(t) == thread_pc[t] = "unstarted" /\ thread_pc'[t] # "unstarted"

\* a thread is started only after run_scan disabled the button, and by a
\* step that leaves no other scan open
StartedByRunScan ==
    \A t \in Scans :
        StartsThread(t) =>
            /\ run_button = "normal" /\ run_button' = "disabled"
            /\ \A u \in Scans \ {t} : ~ScanOpen(u)

\* the button is enabled again only by a step of scan_complete
EnabledByScanComplete ==
    (run_button = "disabled" /\ run_button' = "normal") =>
        /\ Due("scan_complete")
        /\ after_queue' = Tail(after_queue)
        /\ gui_completed' = gui_completed \cup {Head(after_queue).scan}

\* the thread of every started scan schedules scan_complete when it ends,
\* after a scan that returned and after a scan that raised
ScheduledInFinally ==
    \A t \in Scans :
        (thread_pc[t] = "finally" /\ thread_pc'[t] = "ended") =>
            after_queue' = Append(after_queue, [callback |-> "scan_complete", scan |-> t])

\* C30: in the GUI scans never overlap: run_scan disables the run button
\* before it starts the scan thread, and the button is enabled again only by
\* scan_complete, which the thread schedules in its finally block after
\* success and after failure; between the start of a scan thread and its
\* scan_complete no second scan thread is started, and after every started
\* scan the run button is enabled again in the end.
C30_ScansNeverOverlap ==
    /\ []NoOverlap
    /\ [][StartedByRunScan /\ EnabledByScanComplete /\ ScheduledInFinally]_vars
    /\ \A t \in Scans :
          (t \in Started) ~> (t \in gui_completed /\ run_button = "normal")

\* the first scan raised and its scan_complete enabled the button; the
\* second scan was started after that and its thread is at work
C30_Witness ==
    /\ 1 \in gui_completed
    /\ gui_scan_data = 0
    /\ gui_shown \in {"Scan failed", "traceback"}
    /\ thread_pc[1] = "ended"
    /\ scan_thread = 2
    /\ thread_pc[2] = "save"
    /\ run_button = "disabled"
    /\ progress

=============================================================================
